---- MODULE Spec2Model ----
(***************************************************************************)
(* A model of the DayZ Market Tool core: the PBO archive reader and        *)
(* extractor (src/src/parsers/pbo_parser.py), the P3D model reader         *)
(* (src/src/parsers/p3d_parser.py), the configuration scanner              *)
(* (src/src/parsers/config_parser.py), the types.xml reader                *)
(* (src/src/parsers/xml_parser.py) and the mod processor                   *)
(* (src/src/core/mod_processor.py).                                        *)
(*                                                                         *)
(* Files are sequences of byte values 0..255.  Stream positions are        *)
(* 0-based as in Python: the byte at position p of f is f[p + 1].          *)
(***************************************************************************)
EXTENDS Integers, Sequences, FiniteSets, TLC

VARIABLES
    header,     \* PBOParser.header: <<>> for None, or << the header decoded by the last successful parse_pbo >>
    entries,    \* PBOParser.entries: the entry table
    result,     \* the value returned by the last call on the parser ("none" before any call)
    source,     \* history: the archive (its description) that header / entries were decoded from
    input_kind, \* history: the kind of archive handed to the last call
    fs,         \* the file tree written by extract_to_directory
    fault,      \* history: the I/O failure met by the last extract_to_directory
    raised,     \* history: the entry at which the last extract_to_directory raised (0: none)
    call,       \* the P3DParser method called last ("none" before any call)
    returned,   \* what that call returned: <<>> for None, or << the value >>
    invoked,    \* history: the geometry parsers that call invoked
    p3d_file,   \* history: the model file (its description) handed to that call
    cfg_text,   \* history: the configuration text (its description) scanned last
    mappings,   \* the class-to-model mappings of that scan, in insertion order
    lookup,     \* the model path looked up last in the mappings (<<>>: none yet)
    found,      \* what that lookup returned: <<>> for None, or << class name >>
    map_call,   \* the mapping method of P3DParser called last ("none" before any)
    class_names, \* the class names handed to that call
    p3d_files,  \* the model files, in discovery order, handed to that call
    mapped,     \* what map_class_to_p3d returned: <<>> for None, or << path >>
    p3d_mapping, \* what create_class_to_p3d_mapping returned, in insertion order
    batch,      \* the files os.walk yields under the mod directory, in its order
    batch_pos,  \* the file extract_all_pbos_in_directory is at (0: not called)
    attempted,  \* history: the positions of the files it tried to parse
    extracted_dirs, \* the list of extract directories it has built so far
    run_pc,     \* where the call that is decoded step by step stands ("idle": no call)
    run_stream, \* the bytes of the file that call reads
    run_pos,    \* the position of its stream
    run_first,  \* first_entry of PBOHeader.parse_from_file
    run_entries, \* header_entries of PBOHeader.parse_from_file
    run_eof,    \* history: a read_asciiz of the extension list stopped at the end of the file
    run_family, \* the family of the model file being sampled ("none": not a model)
    run_iter,   \* the loop variable i of the sampling loop that runs
    run_vertices, \* len(model.vertices)
    run_vreads, \* history: the iterations of the vertex loop that read
    run_freads, \* history: the iterations of the face loop that read
    temp_dir,   \* ModProcessor.temp_dir: <<>> for None, or << directory >>
    scratch,    \* the scratch directories of the ModProcessor that exist
    xml_items,  \* ModProcessor.xml_parser.items, in insertion order
    mod_runs,   \* history: the number of process_mod_folder calls made
    mod_op,     \* the ModProcessor method called last ("none" before any)
    mod_call    \* history: the last process_mod_folder call, its folder and its result

pbo_vars == <<header, entries, result, source, input_kind, fs, fault, raised>>
p3d_vars == <<call, returned, invoked, p3d_file>>
cfg_vars == <<cfg_text, mappings, lookup, found>>
map_vars == <<map_call, class_names, p3d_files, mapped, p3d_mapping>>
batch_vars == <<batch, batch_pos, attempted, extracted_dirs>>
step_vars == <<run_pc, run_stream, run_pos, run_first, run_entries, run_eof,
               run_family, run_iter, run_vertices, run_vreads, run_freads>>
mod_vars == <<temp_dir, scratch, xml_items, mod_runs, mod_op, mod_call>>
vars == <<header, entries, result, source, input_kind, fs, fault, raised,
          call, returned, invoked, p3d_file, cfg_text, mappings, lookup, found,
          map_call, class_names, p3d_files, mapped, p3d_mapping,
          batch, batch_pos, attempted, extracted_dirs,
          run_pc, run_stream, run_pos, run_first, run_entries, run_eof,
          run_family, run_iter, run_vertices, run_vreads, run_freads,
          temp_dir, scratch, xml_items, mod_runs, mod_op, mod_call>>

(***************************************************************************)
(* Bounds of the model.                                                    *)
(***************************************************************************)
MaxEntries == 2     \* named records per archive (parse)
MaxExt == 2         \* strings in the header extension
MaxSize == 1        \* data_size of a record (parse)
MaxFiles == 2       \* named records per archive (extraction)
MaxGood == 101      \* vertex candidates within bounds at the head of a vertex stream
MaxFaces == 2       \* index triples in the face stream of a model file
MaxBlocks == 2      \* class blocks in a configuration text
MaxCands == 3       \* candidate model files handed to map_class_to_p3d
MaxDirs == 2        \* extracted archive directories of a mod folder
MaxBatch == 3       \* files under the mod directory of a batch extraction
MaxRuns == 2        \* process_mod_folder calls on one ModProcessor
MaxXmls == 2        \* XML files in a mod folder

(***************************************************************************)
(* Byte-level readers.                                                     *)
(***************************************************************************)
RECURSIVE Utf8Valid(_)
\* bytes.decode('utf-8') succeeds: well-formed UTF-8 (RFC 3629)
Utf8Valid(bs) ==
    IF bs = <<>> THEN TRUE
    ELSE LET b == bs[1]
             n == Len(bs)
             cont(i) == i <= n /\ bs[i] >= 128 /\ bs[i] <= 191
             rest(k) == SubSeq(bs, k + 1, n)
         IN  IF b < 128 THEN Utf8Valid(rest(1))
             ELSE IF b >= 194 /\ b <= 223 THEN cont(2) /\ Utf8Valid(rest(2))
             ELSE IF b >= 224 /\ b <= 239
                  THEN /\ cont(2) /\ cont(3)
                       /\ (b = 224 => bs[2] >= 160)
                       /\ (b = 237 => bs[2] <= 159)
                       /\ Utf8Valid(rest(3))
             ELSE IF b >= 240 /\ b <= 244
                  THEN /\ cont(2) /\ cont(3) /\ cont(4)
                       /\ (b = 240 => bs[2] >= 144)
                       /\ (b = 244 => bs[2] <= 143)
                       /\ Utf8Valid(rest(4))
             ELSE FALSE

\* A value returned by read_asciiz: a str (text = TRUE, kept as its UTF-8
\* bytes) or, when decoding failed, a bytes object (text = FALSE).
Decoded(bs) == [text |-> Utf8Valid(bs), b |-> bs]

\* the empty str ''
EmptyStr == [text |-> TRUE, b |-> <<>>]

RECURSIVE ScanToNul(_, _)
\* the position of the first NUL at or after p, or Len(f) at end of file
ScanToNul(f, p) ==
    IF p >= Len(f) \/ f[p + 1] = 0 THEN p ELSE ScanToNul(f, p + 1)

\* read_asciiz(f): the bytes up to (not including) the next NUL or the end
\* of the file; the NUL is consumed
read_asciiz(f, p) ==
    LET q == ScanToNul(f, p)
    IN  [val |-> Decoded(SubSeq(f, p + 1, q)),
         pos |-> IF q < Len(f) THEN q + 1 ELSE q]

\* read_ulong(f): 4 bytes, little-endian; struct.error on a short read
read_ulong(f, p) ==
    IF p + 4 > Len(f)
    THEN [ok |-> FALSE, val |-> 0, pos |-> Len(f)]
    ELSE [ok |-> TRUE,
          val |-> f[p + 1] + 256 * f[p + 2] + 65536 * f[p + 3] + 16777216 * f[p + 4],
          pos |-> p + 4]

(***************************************************************************)
(* PBOHeaderEntry, PBOHeaderExtension, PBOHeader.                          *)
(***************************************************************************)
PBOHeaderEntry(filename, packing_method, original_size, reserved, timestamp, data_size) ==
    [filename |-> filename, packing_method |-> packing_method,
     original_size |-> original_size, reserved |-> reserved,
     timestamp |-> timestamp, data_size |-> data_size, data_offset |-> 0]

is_boundary(e) == e.filename = EmptyStr

NoEntry == PBOHeaderEntry(EmptyStr, 0, 0, 0, 0, 0)

\* PBOHeaderEntry.parse_from_file: a name, then five integers
PBOHeaderEntry_parse_from_file(f, p) ==
    LET n  == read_asciiz(f, p)
        u1 == read_ulong(f, n.pos)
        u2 == read_ulong(f, u1.pos)
        u3 == read_ulong(f, u2.pos)
        u4 == read_ulong(f, u3.pos)
        u5 == read_ulong(f, u4.pos)
    IN  IF u1.ok /\ u2.ok /\ u3.ok /\ u4.ok /\ u5.ok
        THEN [ok |-> TRUE,
              entry |-> PBOHeaderEntry(n.val, u1.val, u2.val, u3.val, u4.val, u5.val),
              pos |-> u5.pos]
        ELSE [ok |-> FALSE, entry |-> NoEntry, pos |-> Len(f)]

RECURSIVE ReadStrings(_, _, _)
\* the loop of PBOHeaderExtension.parse_from_file
ReadStrings(f, p, strings) ==
    LET s == read_asciiz(f, p)
    IN  IF s.val # EmptyStr
        THEN ReadStrings(f, s.pos, Append(strings, s.val))
        ELSE [strings |-> strings, pos |-> s.pos]

\* mutant: the extension block is not consumed
ExtensionNotRead(f, p) == [strings |-> <<>>, pos |-> p]

PBOHeaderExtension_parse_from_file(f, p) == ReadStrings(f, p, <<>>)

\* header_extension = None
NoExtension == [present |-> FALSE, strings |-> <<>>]

ParseFailed == [ok |-> FALSE, header_extension |-> NoExtension, pbo_entries |-> <<>>,
                eoh_boundary |-> NoEntry, pos |-> 0]

RECURSIVE HeaderLoopAnyBoundary(_, _, _, _, _)
\* mutant: the first boundary met introduces an extension block wherever it
\* stands
HeaderLoopAnyBoundary(f, p, first_entry, header_entries, header_extension) ==
    LET e == PBOHeaderEntry_parse_from_file(f, p)
    IN  IF ~e.ok THEN ParseFailed
        ELSE IF ~is_boundary(e.entry)
             THEN HeaderLoopAnyBoundary(f, e.pos, FALSE, Append(header_entries, e.entry),
                                        header_extension)
        ELSE IF ~header_extension.present
             THEN LET x == PBOHeaderExtension_parse_from_file(f, e.pos)
                  IN  HeaderLoopAnyBoundary(f, x.pos, FALSE, header_entries,
                                            [present |-> TRUE, strings |-> x.strings])
        ELSE [ok |-> TRUE, header_extension |-> header_extension,
              pbo_entries |-> header_entries, eoh_boundary |-> e.entry, pos |-> e.pos]

RECURSIVE HeaderLoop(_, _, _, _, _)
\* the while loop of PBOHeader.parse_from_file
HeaderLoop(f, p, first_entry, header_entries, header_extension) ==
    LET e == PBOHeaderEntry_parse_from_file(f, p)
    IN  IF ~e.ok THEN ParseFailed
        ELSE IF ~is_boundary(e.entry)
             THEN HeaderLoop(f, e.pos, FALSE, Append(header_entries, e.entry),
                             header_extension)
        ELSE IF first_entry
             THEN LET x == PBOHeaderExtension_parse_from_file(f, e.pos)
                  IN  HeaderLoop(f, x.pos, FALSE, header_entries,
                                 [present |-> TRUE, strings |-> x.strings])
        ELSE [ok |-> TRUE, header_extension |-> header_extension,
              pbo_entries |-> header_entries, eoh_boundary |-> e.entry, pos |-> e.pos]

PBOHeader_parse_from_file(f) == HeaderLoop(f, 0, TRUE, <<>>, NoExtension)

RECURSIVE AssignOffsetsNoAdvance(_, _, _)
\* mutant: the running cursor is not advanced by data_size
AssignOffsetsNoAdvance(pbo_entries, i, current_pos) ==
    IF i > Len(pbo_entries) THEN pbo_entries
    ELSE AssignOffsetsNoAdvance([pbo_entries EXCEPT ![i].data_offset = current_pos],
                                i + 1, current_pos)

RECURSIVE AssignOffsets(_, _, _)
\* the offset loop of parse_pbo: data_offset = current_pos, current_pos += data_size
AssignOffsets(pbo_entries, i, current_pos) ==
    IF i > Len(pbo_entries) THEN pbo_entries
    ELSE IF ~is_boundary(pbo_entries[i])
         THEN AssignOffsets([pbo_entries EXCEPT ![i].data_offset = current_pos],
                            i + 1, current_pos + pbo_entries[i].data_size)
         ELSE AssignOffsets(pbo_entries, i + 1, current_pos)

\* self.entries = [e for e in self.header.pbo_entries if not e.is_boundary()]
NonBoundary(es) == SelectSeq(es, LAMBDA e : ~is_boundary(e))

\* parse_pbo on the bytes f: what it returns and what it stores
parse_pbo(f) ==
    LET h == PBOHeader_parse_from_file(f)
        located == AssignOffsets(h.pbo_entries, 1, h.pos)
    IN  IF h.ok
        THEN [ok |-> TRUE,
              header |-> << [header_extension |-> h.header_extension,
                             pbo_entries |-> located,
                             eoh_boundary |-> h.eoh_boundary] >>,
              entries |-> NonBoundary(located),
              origin |-> h.pos]
        ELSE [ok |-> FALSE, header |-> <<>>, entries |-> <<>>, origin |-> 0]

(***************************************************************************)
(* Paths and the file tree (POSIX host: os.sep = '/').  A path of the tree *)
(* is the sequence of its components from the root.                        *)
(***************************************************************************)
\* mutant: the stored separator is not normalized
KeepBackslash(s) == s

\* entry.filename.replace('\\', os.sep)
ReplaceBackslash(s) == [i \in 1..Len(s) |-> IF s[i] = 92 THEN 47 ELSE s[i]]

\* os.path.join(a, b)
PathJoin(a, b) ==
    IF b # <<>> /\ b[1] = 47 THEN b
    ELSE IF a = <<>> \/ a[Len(a)] = 47 THEN a \o b
    ELSE a \o <<47>> \o b

RECURSIVE LastSlash(_, _)
\* p.rfind('/') + 1, looking at p[1..i]
LastSlash(p, i) == IF i = 0 \/ p[i] = 47 THEN i ELSE LastSlash(p, i - 1)

RECURSIVE RStripSlash(_)
RStripSlash(p) == IF p # <<>> /\ p[Len(p)] = 47 THEN RStripSlash(SubSeq(p, 1, Len(p) - 1)) ELSE p

\* os.path.dirname(p)
PathDirname(p) ==
    LET head == SubSeq(p, 1, LastSlash(p, Len(p)))
    IN  IF RStripSlash(head) = <<>> THEN head ELSE RStripSlash(head)

RECURSIVE SplitOn(_, _, _, _)
\* the pieces of p[i..] between occurrences of sep, cur being the piece begun
SplitOn(p, sep, i, cur) ==
    IF i > Len(p) THEN <<cur>>
    ELSE IF p[i] = sep THEN <<cur>> \o SplitOn(p, sep, i + 1, <<>>)
    ELSE SplitOn(p, sep, i + 1, Append(cur, p[i]))

\* the components of the path p, as the host separates them
Components(p) == SplitOn(p, 47, 1, <<>>)

\* '.' and '..'
Dot == <<46>>
DotDot == <<46, 46>>

IsFile(tree, path) == \E fl \in tree.files : fl.path = path
IsDir(tree, path) == path = <<>> \/ path \in tree.dirs

RECURSIVE MakeDirsWalk(_, _, _, _)
\* os.makedirs(name, exist_ok=True), walking the components of name from
\* the directory cur: every missing directory on the way is created; it
\* raises when a component is an existing file
MakeDirsWalk(tree, comps, i, cur) ==
    IF i > Len(comps) THEN [ok |-> TRUE, tree |-> tree]
    ELSE LET c == comps[i]
         IN  IF c = <<>> \/ c = Dot THEN MakeDirsWalk(tree, comps, i + 1, cur)
             ELSE IF c = DotDot
                  THEN MakeDirsWalk(tree, comps, i + 1,
                                    IF cur = <<>> THEN cur ELSE SubSeq(cur, 1, Len(cur) - 1))
             ELSE IF IsFile(tree, Append(cur, c)) THEN [ok |-> FALSE, tree |-> tree]
             ELSE MakeDirsWalk([tree EXCEPT !.dirs = @ \cup {Append(cur, c)}],
                               comps, i + 1, Append(cur, c))

makedirs(tree, name) == MakeDirsWalk(tree, Components(name), 1, <<>>)

RECURSIVE ResolveDir(_, _, _, _)
\* the directory the components comps[i..] lead to from cur; ok is false
\* when a component is not an existing directory
ResolveDir(tree, comps, i, cur) ==
    IF i > Len(comps) THEN [ok |-> TRUE, path |-> cur]
    ELSE LET c == comps[i]
         IN  IF c = <<>> \/ c = Dot THEN ResolveDir(tree, comps, i + 1, cur)
             ELSE IF c = DotDot
                  THEN ResolveDir(tree, comps, i + 1,
                                  IF cur = <<>> THEN cur ELSE SubSeq(cur, 1, Len(cur) - 1))
             ELSE IF IsDir(tree, Append(cur, c))
                  THEN ResolveDir(tree, comps, i + 1, Append(cur, c))
             ELSE [ok |-> FALSE, path |-> cur]

\* the file that open(name, 'wb') creates or truncates; ok is false when
\* open raises (the name denotes a directory, or its directory is missing)
OpenTarget(tree, name) ==
    LET comps == Components(name)
        last == comps[Len(comps)]
        dir == ResolveDir(tree, SubSeq(comps, 1, Len(comps) - 1), 1, <<>>)
    IN  IF ~dir.ok \/ last = <<>> \/ last = Dot \/ last = DotDot
           \/ IsDir(tree, Append(dir.path, last))
        THEN [ok |-> FALSE, path |-> <<>>]
        ELSE [ok |-> TRUE, path |-> Append(dir.path, last)]

\* the tree after path holds data
WriteFile(tree, path, data) ==
    [tree EXCEPT !.files = {fl \in @ : fl.path # path} \cup {[path |-> path, data |-> data]}]

\* f.seek(offset); f.read(size): the bytes that are there, fewer at end of file
ReadAt(f, offset, size) ==
    SubSeq(f, offset + 1, IF offset + size <= Len(f) THEN offset + size ELSE Len(f))

(***************************************************************************)
(* extract_to_directory.                                                   *)
(***************************************************************************)
\* no I/O failure
NoFault == [at |-> 0, op |-> "none"]

\* mutant: the files written so far are removed when extraction fails
AbortRollback(tree, i) == [ok |-> FALSE, tree |-> [tree EXCEPT !.files = {}], raised |-> i]

\* except Exception: return False -- what was written stays
Abort(tree, i) == [ok |-> FALSE, tree |-> tree, raised |-> i]

RECURSIVE ExtractLoop(_, _, _, _, _, _)
\* the for loop of extract_to_directory over self.entries, from entry i on;
\* flt is the I/O operation that fails, if any
ExtractLoop(f, output_dir, es, i, tree, flt) ==
    IF i > Len(es) THEN [ok |-> TRUE, tree |-> tree, raised |-> 0]
    ELSE LET entry == es[i]
             hit(op) == flt.at = i /\ flt.op = op
             stop(t) == Abort(t, i)
         IN  IF ~(entry.filename.b # <<>> /\ entry.data_size > 0)
             THEN ExtractLoop(f, output_dir, es, i + 1, tree, flt)
             \* bytes.replace('\\', os.sep) raises TypeError
             ELSE IF ~entry.filename.text THEN stop(tree)
             ELSE LET output_path == PathJoin(output_dir, ReplaceBackslash(entry.filename.b))
                      made == makedirs(tree, PathDirname(output_path))
                      data == ReadAt(f, entry.data_offset, entry.data_size)
                      target == OpenTarget(made.tree, output_path)
                  IN  IF hit("makedirs") \/ ~made.ok THEN stop(tree)
                      ELSE IF hit("seek") \/ hit("read") THEN stop(made.tree)
                      ELSE IF ~target.ok THEN stop(made.tree)
                      \* the file was opened (created or emptied), the write failed
                      ELSE IF hit("write") THEN stop(WriteFile(made.tree, target.path, <<>>))
                      ELSE ExtractLoop(f, output_dir, es, i + 1,
                                       WriteFile(made.tree, target.path, data), flt)

\* the empty file system
NoTree == [dirs |-> {}, files |-> {}]

\* extract_to_directory(pbo_path, output_dir) after its parse_pbo succeeded
\* with the entry table es; output_dir does not exist yet
extract_entries(f, output_dir, es, flt) ==
    LET made == makedirs(NoTree, output_dir)
    IN  IF (flt.at = 0 /\ flt.op = "makedirs") \/ ~made.ok THEN Abort(NoTree, 0)
        \* open(pbo_path, 'rb') fails
        ELSE IF flt.at = 0 /\ flt.op = "open" THEN Abort(made.tree, 0)
        ELSE ExtractLoop(f, output_dir, es, 1, made.tree, flt)

\* extract_to_directory(pbo_path, output_dir) once its parse_pbo returned p
extract_parsed(f, p, output_dir, flt) ==
    IF ~p.ok THEN [parsed |-> p, ok |-> FALSE, tree |-> NoTree, raised |-> 0]
    ELSE LET x == extract_entries(f, output_dir, p.entries, flt)
         IN  [parsed |-> p, ok |-> x.ok, tree |-> x.tree, raised |-> x.raised]

\* extract_to_directory(pbo_path, output_dir), f being the file at pbo_path
extract_to_directory(f, output_dir, flt) == extract_parsed(f, parse_pbo(f), output_dir, flt)

(***************************************************************************)
(* Archives handed to the parser, built as debug_xml_extraction builds     *)
(* its test archive.                                                       *)
(***************************************************************************)
LE32(v) == << v % 256, (v \div 256) % 256, (v \div 65536) % 256, (v \div 16777216) % 256 >>

\* struct.pack('<IIIII', a, b, c, d, e)
Pack5(a, b, c, d, e) == LE32(a) \o LE32(b) \o LE32(c) \o LE32(d) \o LE32(e)

RECURSIVE Concat(_)
Concat(ss) == IF ss = <<>> THEN <<>> ELSE Head(ss) \o Concat(Tail(ss))

\* the payload of the i-th record: n bytes, different for every record and position
Content(i, n) == [j \in 1..n |-> 16 * i + j]

\* name, NUL, then packing_method, original_size, reserved, timestamp, data_size
RecordBytes(r) == r.name \o <<0>> \o Pack5(r.packing, r.size, 0, 0, r.size)

\* the leading boundary ('Vers'), the extension strings and their terminator,
\* the named records, the terminating boundary, then the payloads
BuildArchive(ext, recs) ==
    <<0>> \o Pack5(1449489011, 0, 0, 0, 0)
    \o Concat([i \in 1..Len(ext) |-> ext[i] \o <<0>>]) \o <<0>>
    \o Concat([i \in 1..Len(recs) |-> RecordBytes(recs[i])])
    \o <<0>> \o Pack5(1131442803, 0, 0, 0, 0)
    \o Concat([i \in 1..Len(recs) |-> Content(i, recs[i].size)])

RECURSIVE SumSizes(_)
SumSizes(recs) == IF recs = <<>> THEN 0 ELSE Head(recs).size + SumSizes(Tail(recs))

\* the length of the header of BuildArchive(ext, recs)
HeaderLen(ext, recs) == Len(BuildArchive(ext, recs)) - SumSizes(recs)

SeqsUpTo(S, n) == UNION {[1..k -> S] : k \in 0..n}

\* 'a' and 'b\c'
ParseNames == {<<97>>, <<98, 92, 99>>}
\* 'p'
ExtStrings == {<<112>>}

ParseRecs == [name : ParseNames, packing : {0}, size : 0..MaxSize]

\* well-formed archives
CompleteArchives ==
    {[ext |-> x, recs |-> rs, cut |-> Len(BuildArchive(x, rs))] :
        x \in SeqsUpTo(ExtStrings, MaxExt), rs \in SeqsUpTo(ParseRecs, MaxEntries)}

\* archives cut somewhere inside the header
TruncatedArchives ==
    UNION {{[ext |-> x, recs |-> rs, cut |-> c] : c \in 0..(HeaderLen(x, rs) - 1)} :
        x \in SeqsUpTo(ExtStrings, MaxExt),
        rs \in SeqsUpTo([name : ParseNames, packing : {0}, size : {1}], 1)}

\* the bytes of the archive described by d
FileBytes(d) == SubSeq(BuildArchive(d.ext, d.recs), 1, d.cut)

ParseInputs == CompleteArchives \cup TruncatedArchives

KindOf(d) == IF d.cut < HeaderLen(d.ext, d.recs) THEN "truncated" ELSE "complete"

\* what parse_pbo does on each archive, and the kind of the archive
ParseRuns == {[d |-> d, out |-> parse_pbo(FileBytes(d)), kind |-> KindOf(d)] : d \in ParseInputs}

\* a boundary record: an empty name and five integers
BoundaryBytes(tag) == <<0>> \o Pack5(tag, 0, 0, 0, 0)

LayoutRecs == [name : ParseNames, packing : {0}, size : {1}]

\* headers of the layout  record* boundary [string list] record* boundary,
\* and headers with further records after the last boundary (rest)
LayoutInputs(n) ==
    [pre : SeqsUpTo(LayoutRecs, n), ext : SeqsUpTo(ExtStrings, 1), hasExt : BOOLEAN,
     post : SeqsUpTo(LayoutRecs, n), rest : SeqsUpTo(LayoutRecs, 1)]

\* the bytes of the records before the first boundary and of that boundary
LayoutHead(d) ==
    Concat([i \in 1..Len(d.pre) |-> RecordBytes(d.pre[i])]) \o BoundaryBytes(1449489011)

\* the bytes up to the second boundary, that boundary included
LayoutHeader(d) ==
    LayoutHead(d)
    \o (IF d.hasExt THEN Concat([i \in 1..Len(d.ext) |-> d.ext[i] \o <<0>>]) \o <<0>> ELSE <<>>)
    \o Concat([i \in 1..Len(d.post) |-> RecordBytes(d.post[i])])
    \o BoundaryBytes(1131442803)

\* the bytes of the file
LayoutBytes(d) == LayoutHeader(d) \o Concat([i \in 1..Len(d.rest) |-> RecordBytes(d.rest[i])])

\* where the first boundary stands: after named records ("later"), first
\* and followed by a string list ("first"), first with no string list
\* ("bare"); "+rest" when records follow the last boundary
LayoutKind(d) ==
    IF d.pre # <<>> THEN (IF d.rest = <<>> THEN "later" ELSE "later+rest")
    ELSE IF d.hasExt THEN (IF d.rest = <<>> THEN "first" ELSE "first+rest")
    ELSE (IF d.rest = <<>> THEN "bare" ELSE "bare+rest")

\* what parse_pbo does on each of these files
LayoutRuns(n) ==
    {[d |-> d, out |-> parse_pbo(LayoutBytes(d)), kind |-> LayoutKind(d)] : d \in LayoutInputs(n)}

\* entry names: 'a', 'b\a', 'a\b', '..\a', '/a'
ExtractNames == {<<97>>, <<98, 92, 97>>, <<97, 92, 98>>, <<46, 46, 92, 97>>, <<47, 97>>}

\* stored records, and one packed record ('Cprs')
ExtractRecs ==
    [name : ExtractNames, packing : {0}, size : {0, 2}]
    \cup [name : {<<97>>}, packing : {1131442803}, size : {2}]

\* the destination directory '/o'
OutputDir == <<47, 111>>

\* the I/O operations that may fail while an archive of n entries is extracted
Faults(n) ==
    {NoFault} \cup {[at |-> 0, op |-> o] : o \in {"makedirs", "open"}}
    \cup {[at |-> k, op |-> o] : k \in 1..n, o \in {"makedirs", "seek", "read", "write"}}

\* extract_to_directory on the file f, under each I/O failure of flts
RunsOn(d, f, kind, flts) ==
    LET p == parse_pbo(f)
    IN  {[d |-> d, kind |-> kind, flt |-> flt, x |-> extract_parsed(f, p, OutputDir, flt)] :
            flt \in flts}

\* extract_to_directory on the well-formed archives of at most n records with
\* the extension 'p', and on an empty file
ExtractRuns(n) ==
    UNION {LET f == BuildArchive(<< <<112>> >>, rs)
           IN  RunsOn([ext |-> << <<112>> >>, recs |-> rs, cut |-> Len(f)], f, "complete",
                      Faults(Len(rs))) :
           rs \in SeqsUpTo(ExtractRecs, n)}
    \cup RunsOn([ext |-> <<>>, recs |-> <<>>, cut |-> 0], <<>>, "truncated", {NoFault})

\* entry names that are no UTF-8: b'\xff' and b'\x80\\a'
RawNames == {<<255>>, <<128, 92, 97>>}

\* entry names that are UTF-8: 'a' and 'e' with an acute accent
TextNames == {<<97>>, <<195, 169>>}

DamagedRecs == [name : RawNames \cup TextNames, packing : {0}, size : {0, 2}]

\* extract_to_directory on the archives of at most n records of DamagedRecs,
\* whole ("complete") and with the payload cut short ("short"), under no I/O
\* failure and under a failing write
DamagedRuns(n) ==
    UNION {LET whole == BuildArchive(<<>>, rs)
           IN  UNION {RunsOn([ext |-> <<>>, recs |-> rs, cut |-> c], SubSeq(whole, 1, c),
                             IF c = Len(whole) THEN "complete" ELSE "short",
                             {NoFault} \cup {[at |-> k, op |-> "write"] : k \in 1..Len(rs)}) :
                      c \in HeaderLen(<<>>, rs)..Len(whole)} :
           rs \in SeqsUpTo(DamagedRecs, n)}

(***************************************************************************)
(* The P3D model reader.  A float is kept as the sign and the 31 bits of   *)
(* exponent and mantissa that struct.unpack('<f') decodes: for IEEE 754    *)
(* the order of magnitudes is the order of these bits, and a NaN is above  *)
(* every number.                                                           *)
(***************************************************************************)
\* b'MLOD', b'ODOL'
MLOD == <<77, 76, 79, 68>>
ODOL == <<79, 68, 79, 76>>

\* f.read(n) at position p
ReadBytes(f, p, n) == SubSeq(f, p + 1, IF p + n <= Len(f) THEN p + n ELSE Len(f))

\* struct.unpack('<I', f.read(4)): struct.error on a short read
unpack_I(f, p) ==
    IF p + 4 > Len(f) THEN [ok |-> FALSE, val |-> 0]
    ELSE [ok |-> TRUE,
          val |-> f[p + 1] + 256 * f[p + 2] + 65536 * f[p + 3] + 16777216 * f[p + 4]]

\* struct.unpack('<H', f.read(2))
unpack_H(f, p) ==
    IF p + 2 > Len(f) THEN [ok |-> FALSE, val |-> 0]
    ELSE [ok |-> TRUE, val |-> f[p + 1] + 256 * f[p + 2]]

\* struct.unpack('<f', f.read(4))
unpack_f(f, p) ==
    IF p + 4 > Len(f) THEN [ok |-> FALSE, neg |-> FALSE, mag |-> 0]
    ELSE [ok |-> TRUE, neg |-> f[p + 4] >= 128,
          mag |-> f[p + 1] + 256 * f[p + 2] + 65536 * f[p + 3] + 16777216 * (f[p + 4] % 128)]

\* the bits of 1000.0
Bits1000 == 1148846080

\* mutant: a magnitude of exactly 1000 is accepted
BelowOrAt1000(x) == x.mag <= Bits1000

\* abs(x) < 1000
Below1000(x) == x.mag < Bits1000

\* mutant: only the first coordinate is checked
VertexOkFirstOnly(x, y, z) == Below1000(x)

\* abs(x) < 1000 and abs(y) < 1000 and abs(z) < 1000
VertexOk(x, y, z) == Below1000(x) /\ Below1000(y) /\ Below1000(z)

Coord(x) == [neg |-> x.neg, mag |-> x.mag]

\* the least number of a set of numbers
Least(S) == CHOOSE n \in S : \A m \in S : n <= m

\* the three floats read in iteration i (from 0) of a vertex loop starting at p
VertexRead(f, p, i) ==
    [x |-> unpack_f(f, p + 12 * i), y |-> unpack_f(f, p + 12 * i + 4),
     z |-> unpack_f(f, p + 12 * i + 8)]

\* iteration i appends its vertex: no read is short (struct.error) and the
\* vertex passes the test (else: break)
VertexAppended(f, p, i) ==
    LET r == VertexRead(f, p, i)
    IN  r.x.ok /\ r.y.ok /\ r.z.ok /\ VertexOk(r.x, r.y, r.z)

\* for i in range(cap): read x, y, z; append or break; a short read
\* (struct.error) ends the loop.  The loop ends at the first iteration that
\* does not append, or after cap iterations.
VertexLoop(f, p, cap) ==
    LET stops == {i \in 0..(cap - 1) : ~VertexAppended(f, p, i)}
        n == IF stops = {} THEN cap ELSE Least(stops)
    IN  [i \in 1..n |-> LET r == VertexRead(f, p, i - 1)
                        IN  <<Coord(r.x), Coord(r.y), Coord(r.z)>>]

\* the three indices read in iteration i (from 0) of a face loop starting at p
FaceRead(f, p, i) ==
    [idx1 |-> unpack_H(f, p + 6 * i), idx2 |-> unpack_H(f, p + 6 * i + 2),
     idx3 |-> unpack_H(f, p + 6 * i + 4)]

\* mutant: an index equal to the number of vertices is taken as in range
FaceAppendedInclusive(f, p, i, nvertices) ==
    LET r == FaceRead(f, p, i)
    IN  /\ r.idx1.ok /\ r.idx2.ok /\ r.idx3.ok
        /\ r.idx1.val <= nvertices /\ r.idx2.val <= nvertices /\ r.idx3.val <= nvertices

\* iteration i appends its face
FaceAppended(f, p, i, nvertices) ==
    LET r == FaceRead(f, p, i)
    IN  /\ r.idx1.ok /\ r.idx2.ok /\ r.idx3.ok
        /\ r.idx1.val < nvertices /\ r.idx2.val < nvertices /\ r.idx3.val < nvertices

\* for i in range(face_count): read idx1, idx2, idx3; append or break
FaceLoop(f, p, face_count, nvertices) ==
    LET stops == {i \in 0..(face_count - 1) : ~FaceAppended(f, p, i, nvertices)}
        n == IF stops = {} THEN face_count ELSE Least(stops)
    IN  [i \in 1..n |-> LET r == FaceRead(f, p, i - 1)
                        IN  <<r.idx1.val, r.idx2.val, r.idx3.val>>]

Min(a, b) == IF a <= b THEN a ELSE b

\* the sampling offsets and caps of the MLOD and ODOL families
MlodVertexOffset == 100
MlodVertexCap == 100
MlodFaceOffset == 300
MlodFaceCap == 200
OdolVertexOffset == 200
OdolVertexCap == 50
OdolFaceOffset == 400
OdolFaceCap == 150

P3DModel(format_type, vertices, faces) ==
    [format_type |-> format_type, vertices |-> vertices, faces |-> faces,
     is_valid |-> Len(vertices) > 0, geometry_loaded |-> Len(vertices) > 0]

\* parse_mlod_geometry: <<>> for None.  file = [openable, bytes]
parse_mlod_geometry(file) ==
    LET f == file.bytes
        lod_count == unpack_I(f, 8)
        vertices == IF lod_count.val > 0
                    THEN VertexLoop(f, MlodVertexOffset, MlodVertexCap)
                    ELSE <<>>
        faces == FaceLoop(f, MlodFaceOffset, Min(Len(vertices) \div 3, MlodFaceCap),
                          Len(vertices))
    IN  IF ~file.openable \/ ~lod_count.ok THEN <<>>
        ELSE << P3DModel("MLOD", vertices, faces) >>

\* parse_odol_geometry
parse_odol_geometry(file) ==
    LET f == file.bytes
        vertices == VertexLoop(f, OdolVertexOffset, OdolVertexCap)
        faces == FaceLoop(f, OdolFaceOffset, Min(Len(vertices) \div 3, OdolFaceCap),
                          Len(vertices))
    IN  IF ~file.openable THEN <<>>
        ELSE << P3DModel("ODOL", vertices, faces) >>

\* mutant: the vertex loops run over the larger number
VertexRangeUncapped(family) == IF family = "MLOD" THEN 1000 ELSE 500

\* range(min(100, 1000)) of parse_mlod_geometry, range(min(50, 500)) of
\* parse_odol_geometry
VertexRangeOf(family) == IF family = "MLOD" THEN Min(100, 1000) ELSE Min(50, 500)

\* face_count = min(len(model.vertices) // 3, 200), or 150 for ODOL
FaceCountOf(family, nvertices) ==
    IF family = "MLOD" THEN Min(nvertices \div 3, 200) ELSE Min(nvertices \div 3, 150)

\* header in [b'MLOD', b'ODOL']
RecognizedMagic(hdr) == hdr \in {MLOD, ODOL}

\* is_valid_p3d
is_valid_p3d(file) == file.openable /\ RecognizedMagic(ReadBytes(file.bytes, 0, 4))

\* parse_p3d_header: <<>> for None
parse_p3d_header(file) ==
    LET hdr == ReadBytes(file.bytes, 0, 4)
        version == unpack_I(file.bytes, 4)
    IN  IF ~file.openable \/ ~RecognizedMagic(hdr) \/ ~version.ok THEN <<>>
        ELSE << [format |-> hdr, version |-> version.val, file_size |-> Len(file.bytes)] >>

\* mutant: the file is handed to a geometry parser without the header checks
SampleUnchecked(file) ==
    LET mlod == ReadBytes(file.bytes, 0, 4) = MLOD
        model == IF mlod THEN parse_mlod_geometry(file) ELSE parse_odol_geometry(file)
    IN  [model |-> model,
         invoked |-> {IF mlod THEN "parse_mlod_geometry" ELSE "parse_odol_geometry"}]

\* get_basic_model_info: the model returned and the geometry parsers invoked
get_basic_model_info(file) ==
    LET header_info == parse_p3d_header(file)
    IN  IF ~is_valid_p3d(file) THEN [model |-> <<>>, invoked |-> {}]
        ELSE IF header_info = <<>> THEN [model |-> <<>>, invoked |-> {}]
        ELSE IF header_info[1].format = MLOD
             THEN [model |-> parse_mlod_geometry(file), invoked |-> {"parse_mlod_geometry"}]
        ELSE IF header_info[1].format = ODOL
             THEN [model |-> parse_odol_geometry(file), invoked |-> {"parse_odol_geometry"}]
        ELSE [model |-> <<>>, invoked |-> {}]

\* extract_model_data: the geometry part of the dictionary it returns
extract_model_data(file) ==
    LET got == get_basic_model_info(file)
    IN  IF got.model = <<>> THEN [data |-> <<>>, invoked |-> got.invoked]
        ELSE LET model == got.model[1]
             IN  [data |-> << [format |-> model.format_type,
                              vertices |-> model.vertices,
                              faces |-> model.faces,
                              vertex_count |-> Len(model.vertices),
                              face_count |-> Len(model.faces),
                              has_geometry |-> model.geometry_loaded,
                              valid |-> model.is_valid] >>,
                  invoked |-> got.invoked]

(***************************************************************************)
(* Model files handed to the reader.                                       *)
(***************************************************************************)
\* the four bytes of a float, little-endian
FloatBytes(neg, mag) ==
    << mag % 256, (mag \div 256) % 256, (mag \div 65536) % 256,
       (mag \div 16777216) + (IF neg THEN 128 ELSE 0) >>

Zeros(n) == [i \in 1..n |-> 0]

\* a vertex within bounds, different for every i: (i * 2^-149, 1.0, -999.99994)
GoodVertex(i) == FloatBytes(FALSE, i) \o FloatBytes(FALSE, 1065353216)
                 \o FloatBytes(TRUE, 1148846079)

\* coordinates out of bounds: 1000.0, -1000.0, -1000.00006, NaN
BadCoords == {[neg |-> FALSE, mag |-> 1148846080], [neg |-> TRUE, mag |-> 1148846080],
              [neg |-> TRUE, mag |-> 1148846081], [neg |-> FALSE, mag |-> 2143289344]}

\* a vertex whose coordinate c is bad
BadVertex(c, bad) ==
    LET ok == FloatBytes(FALSE, 1065353216)
        no == FloatBytes(bad.neg, bad.mag)
    IN  (IF c = 1 THEN no ELSE ok) \o (IF c = 2 THEN no ELSE ok) \o (IF c = 3 THEN no ELSE ok)

\* the vertices GoodVertex(1), ..., GoodVertex(n)
GoodVertices(n) ==
    [k \in 1..(12 * n) |-> GoodVertex(((k - 1) \div 12) + 1)[((k - 1) % 12) + 1]]

\* the candidates of a vertex stream: good good vertices, then, when bad is
\* << [c, v] >>, a vertex with the bad coordinate and one more good vertex
VertexStream(good, bad) ==
    GoodVertices(good)
    \o (IF bad = <<>> THEN <<>>
        ELSE BadVertex(bad[1].c, bad[1].v) \o GoodVertex(good + 2))

\* a model file: magic, version 1, lod_count, zeros up to the vertex offset
\* voff, the vertex stream, and, when that ends before the face offset foff,
\* zeros up to foff and the index triples faces
ModelBytes(magic, lod_count, voff, foff, good, bad, faces) ==
    LET head == magic \o LE32(1) \o LE32(lod_count)
        upto == head \o Zeros(voff - Len(head)) \o VertexStream(good, bad)
    IN  IF Len(upto) > foff THEN upto
        ELSE upto \o Zeros(foff - Len(upto))
             \o Concat([i \in 1..Len(faces) |->
                           << faces[i][1], 0, faces[i][2], 0, faces[i][3], 0 >>])

VertexOffsetOf(magic) == IF magic = ODOL THEN OdolVertexOffset ELSE MlodVertexOffset
FaceOffsetOf(magic) == IF magic = ODOL THEN OdolFaceOffset ELSE MlodFaceOffset

\* 'XLOD', 'mlod'
OtherMagics == {<<88, 76, 79, 68>>, <<109, 108, 111, 100>>}

BadChoices == {<<>>} \cup {<< [c |-> c, v |-> v] >> : c \in 1..3, v \in BadCoords}

FaceChoices == {<<>>, << <<0, 1, 2>> >>}

\* index triples: in range for 3 vertices, for 2 vertices, and out of range
FaceTriples == {<<0, 1, 2>>, <<2, 0, 1>>, <<1, 0, 1>>, <<0, 3, 1>>}

\* the face streams of at most n triples
FaceStreams(n) == SeqsUpTo(FaceTriples, n)

P3DDesc(magic, openable, lod_count, good, bad, faces, cut) ==
    [magic |-> magic, openable |-> openable, lod_count |-> lod_count, good |-> good,
     bad |-> bad, faces |-> faces, cut |-> cut]

\* the vertex one of whose coordinates is exactly 1000.0
AtThousand == << [c |-> 1, v |-> [neg |-> FALSE, mag |-> Bits1000]] >>

\* the descriptions of the model files of at most n good vertices: files of
\* each family and of no family, whole and cut short, and files that cannot
\* be opened
P3DInputs(n) ==
    {P3DDesc(magic, TRUE, 1, good, bad, <<>>, 0) :
        magic \in {MLOD, ODOL}, good \in 0..n, bad \in {<<>>, AtThousand}}
    \cup {P3DDesc(magic, TRUE, 1, good, bad, <<>>, 0) :
            magic \in {MLOD, ODOL}, good \in 0..3, bad \in BadChoices}
    \cup {P3DDesc(magic, openable, lod_count, good, <<>>, faces, 0) :
            magic \in {MLOD, ODOL} \cup OtherMagics, openable \in BOOLEAN,
            lod_count \in {0, 1}, good \in {0, 3}, faces \in FaceChoices}
    \cup {P3DDesc(magic, TRUE, 1, 3, <<>>, <<>>, cut) :
            magic \in {MLOD, ODOL} \cup OtherMagics, cut \in 0..13}
    \cup {P3DDesc(magic, TRUE, 1, good, AtThousand, faces, 0) :
            magic \in {MLOD, ODOL}, good \in {2, 3}, faces \in FaceStreams(MaxFaces)}

\* the file described by d: cut = 0 for the whole file, else its first cut - 1 bytes
P3DFile(d) ==
    LET whole == ModelBytes(d.magic, d.lod_count, VertexOffsetOf(d.magic),
                            FaceOffsetOf(d.magic), d.good, d.bad, d.faces)
    IN  [openable |-> d.openable,
         bytes |-> IF d.cut = 0 THEN whole ELSE SubSeq(whole, 1, d.cut - 1)]

P3DRuns(n) ==
    {[d |-> d, file |-> P3DFile(d)] : d \in P3DInputs(n)}

\* the model files whose sampling is followed loop iteration by loop
\* iteration: files of both families that can be opened, with few good
\* vertices or about as many as a vertex loop reads at most
SampledInputs(n) ==
    {d \in P3DInputs(n) :
        /\ d.openable /\ d.magic \in {MLOD, ODOL}
        /\ \/ d.good <= 3
           \/ d.good \in {OdolVertexCap - 1, OdolVertexCap, OdolVertexCap + 1}
           \/ d.good >= MlodVertexCap - 1}

(***************************************************************************)
(* The configuration-text scan.  A text is a sequence of character codes.  *)
(***************************************************************************)
\* \s, \w, a quote, and lower-casing (re.IGNORECASE, str.lower)
IsSpace(c) == c \in {9, 10, 11, 12, 13, 32}
IsWord(c) == c \in (48..57) \cup (65..90) \cup (97..122) \cup {95}
IsQuote(c) == c \in {34, 39}
NotQuote(c) == ~IsQuote(c)
Lower(c) == IF c \in 65..90 THEN c + 32 ELSE c
LowerStr(t) == [i \in 1..Len(t) |-> Lower(t[i])]

\* 'model', 'class', '.p3d'
Str_model == <<109, 111, 100, 101, 108>>
Str_class == <<99, 108, 97, 115, 115>>
Str_p3d == <<46, 112, 51, 100>>

\* the literal lit stands at position i of t, ignoring case
LiteralAt(t, i, lit) ==
    /\ i >= 1 /\ i + Len(lit) - 1 <= Len(t)
    /\ \A k \in 1..Len(lit) : Lower(t[i + k - 1]) = lit[k]

\* the character c is in the class cls: "space" \s, "word" \w, "text" [^"'],
\* "head" [^{], "body" [^{}]
InClass(cls, c) ==
    \/ cls = "space" /\ IsSpace(c)
    \/ cls = "word" /\ IsWord(c)
    \/ cls = "text" /\ NotQuote(c)
    \/ cls = "head" /\ c # 123
    \/ cls = "body" /\ c \notin {123, 125}

\* the first position from i on whose character is not in the class cls
\* (Len(t) + 1 when there is none): where a greedy cls* ends
Skip(t, i, cls) ==
    Least({j \in i..(Len(t) + 1) : j = Len(t) + 1 \/ ~InClass(cls, t[j])})

NoMatch == [ok |-> FALSE, start |-> 0, end |-> 0, group |-> <<>>]

\* model\s*=\s*["']([^"']+\.p3d)["'] matched at position i: start and end
\* are the first position of the match and the first after it
ModelMatchAt(t, i) ==
    IF ~LiteralAt(t, i, Str_model) THEN NoMatch
    ELSE LET eq == Skip(t, i + 5, "space")
         IN  IF eq > Len(t) \/ t[eq] # 61 THEN NoMatch
             ELSE LET open == Skip(t, eq + 1, "space")
                  IN  IF open > Len(t) \/ ~IsQuote(t[open]) THEN NoMatch
                      ELSE LET close == Skip(t, open + 1, "text")
                           IN  IF close > Len(t) \/ close - open < 6
                                  \/ ~LiteralAt(t, close - 4, Str_p3d)
                               THEN NoMatch
                               ELSE [ok |-> TRUE, start |-> i, end |-> close + 1,
                                     group |-> SubSeq(t, open + 1, close - 1)]

\* class\s+(\w+) matched at position i
ClassMatchAt(t, i) ==
    IF ~LiteralAt(t, i, Str_class) THEN NoMatch
    ELSE LET name == Skip(t, i + 5, "space")
         IN  IF name = i + 5 \/ name > Len(t) \/ ~IsWord(t[name]) THEN NoMatch
             ELSE LET end == Skip(t, name, "word")
                  IN  [ok |-> TRUE, start |-> i, end |-> end,
                       group |-> SubSeq(t, name, end - 1)]

RECURSIVE BlockEnd(_, _)
\* [^{}]*(?:\{[^{}]*\}[^{}]*)*\} from position j: the position of the
\* closing brace, or 0 when there is no match (the text ends, or a brace
\* opens inside an inner pair of braces)
BlockEnd(t, j) ==
    LET k == Skip(t, j, "body")
    IN  IF k > Len(t) THEN 0
        ELSE IF t[k] = 125 THEN k
        ELSE LET m == Skip(t, k + 1, "body")
             IN  IF m > Len(t) \/ t[m] = 123 THEN 0 ELSE BlockEnd(t, m + 1)

\* class\s+(\w+)[^{]*\{([^{}]*(?:\{[^{}]*\}[^{}]*)*)\} matched at position i:
\* group is the class name, body what stands between the braces
BlockMatchAt(t, i) ==
    LET cm == ClassMatchAt(t, i)
    IN  IF ~cm.ok THEN NoMatch
        ELSE LET open == Skip(t, cm.end, "head")
             IN  IF open > Len(t) THEN NoMatch
                 ELSE LET close == BlockEnd(t, open + 1)
                      IN  IF close = 0 THEN NoMatch
                          ELSE [ok |-> TRUE, start |-> i, end |-> close + 1,
                                group |-> cm.group, body |-> SubSeq(t, open + 1, close - 1)]

\* the match of the pattern ("model", "class" or "block") at position i
MatchAt(t, pattern, i) ==
    IF pattern = "model" THEN ModelMatchAt(t, i)
    ELSE IF pattern = "class" THEN ClassMatchAt(t, i)
    ELSE BlockMatchAt(t, i)

RECURSIVE FindIterFrom(_, _, _, _)
\* re.finditer: the matches found from position pos on, left to right and
\* without overlap; starts are the positions where the pattern matches
FindIterFrom(t, pattern, starts, pos) ==
    LET rest == {i \in starts : i >= pos}
    IN  IF rest = {} THEN <<>>
        ELSE LET mt == MatchAt(t, pattern, Least(rest))
             IN  <<mt>> \o FindIterFrom(t, pattern, starts, mt.end)

\* re.finditer(model_pattern, t)
ModelMatches(t) ==
    FindIterFrom(t, "model", {i \in 1..Len(t) : ModelMatchAt(t, i).ok}, 1)

\* list(re.finditer(class_pattern, t))
ClassMatches(t) ==
    FindIterFrom(t, "class", {i \in 1..Len(t) : ClassMatchAt(t, i).ok}, 1)

\* the characters looked at before a match
Window == 1000

\* mutant: the whole text before the match is looked at
WholePrefix(t, start) == SubSeq(t, 1, start - 1)

\* text_data[max(0, match.start() - 1000):match.start()]
PrecedingText(t, start) ==
    SubSeq(t, (IF start - 1 - Window > 0 THEN start - 1 - Window ELSE 0) + 1, start - 1)

\* model_path.replace('\\', '/')
ForwardSlashes(path) == [i \in 1..Len(path) |-> IF path[i] = 92 THEN 47 ELSE path[i]]

\* mappings[class_name] = model_path on a dict kept as the sequence of its
\* items: a key already present keeps its place
DictSet(d, k, v) ==
    IF \E i \in 1..Len(d) : d[i].k = k
    THEN [i \in 1..Len(d) |-> IF d[i].k = k THEN [k |-> k, v |-> v] ELSE d[i]]
    ELSE Append(d, [k |-> k, v |-> v])

RECURSIVE DictUpdate(_, _, _)
\* d.update(m), from the i-th item of m on
DictUpdate(d, mp, i) ==
    IF i > Len(mp) THEN d ELSE DictUpdate(DictSet(d, mp[i].k, mp[i].v), mp, i + 1)

RECURSIVE BindMatches(_, _, _, _)
\* the loop of parse_config_bin over the matches ms from the i-th on
BindMatches(t, ms, i, d) ==
    IF i > Len(ms) THEN d
    ELSE LET class_matches == ClassMatches(PrecedingText(t, ms[i].start))
             model_path == ForwardSlashes(ms[i].group)
         IN  IF class_matches # <<>>
             THEN BindMatches(t, ms, i + 1,
                              DictSet(d, class_matches[Len(class_matches)].group, model_path))
             ELSE BindMatches(t, ms, i + 1, d)

\* ConfigParser.parse_config_bin on the text t
parse_config_bin(t) == BindMatches(t, ModelMatches(t), 1, <<>>)

\* re.finditer(class_pattern, content) of parse_config_cpp
BlockMatches(t) ==
    FindIterFrom(t, "block", {i \in 1..Len(t) : BlockMatchAt(t, i).ok}, 1)

\* re.search(model_pattern, class_body): << the first match >>, or <<>>
SearchModel(class_body) ==
    LET starts == {i \in 1..Len(class_body) : ModelMatchAt(class_body, i).ok}
    IN  IF starts = {} THEN <<>> ELSE << ModelMatchAt(class_body, Least(starts)) >>

RECURSIVE BindBlocks(_, _, _)
\* the loop of parse_config_cpp over the class matches cs from the i-th on
BindBlocks(cs, i, d) ==
    IF i > Len(cs) THEN d
    ELSE LET model_match == SearchModel(cs[i].body)
         IN  BindBlocks(cs, i + 1,
                        IF model_match # <<>>
                        THEN DictSet(d, cs[i].group, ForwardSlashes(model_match[1].group))
                        ELSE d)

\* ConfigParser.parse_config_cpp on the text t
parse_config_cpp(t) == BindBlocks(BlockMatches(t), 1, <<>>)

\* name.endswith(suffix)
EndsWith(name, suffix) ==
    Len(name) >= Len(suffix) /\ SubSeq(name, Len(name) - Len(suffix) + 1, Len(name)) = suffix

\* '.cpp', '.bin'
Str_cpp == <<46, 99, 112, 112>>
Str_bin == <<46, 98, 105, 110>>

\* all_mappings.update(mappings)
MergeMappings(all_mappings, mp) == DictUpdate(all_mappings, mp, 1)

RECURSIVE ScanConfigFiles(_, _, _)
\* the loop of extract_all_class_mappings over the configuration files from
\* the i-th on; a file is its path and its text
ScanConfigFiles(files, i, all_mappings) ==
    IF i > Len(files) THEN all_mappings
    ELSE IF EndsWith(files[i].path, Str_cpp)
         THEN ScanConfigFiles(files, i + 1,
                              MergeMappings(all_mappings, parse_config_cpp(files[i].text)))
    ELSE IF EndsWith(files[i].path, Str_bin)
         THEN ScanConfigFiles(files, i + 1,
                              MergeMappings(all_mappings, parse_config_bin(files[i].text)))
    ELSE ScanConfigFiles(files, i + 1, all_mappings)

\* ConfigParser.extract_all_class_mappings, given the files that
\* find_config_files finds
extract_all_class_mappings(files) == ScanConfigFiles(files, 1, <<>>)

RECURSIVE LastIndexOf(_, _, _)
\* the last position at or before i where the character c stands in t, or 0
LastIndexOf(t, c, i) == IF i = 0 \/ t[i] = c THEN i ELSE LastIndexOf(t, c, i - 1)

\* Path(p).name: the part after the last '/'
PathName(path) == SubSeq(path, LastIndexOf(path, 47, Len(path)) + 1, Len(path))

\* Path(p).stem: the name without its last suffix
PathStem(path) ==
    LET name == PathName(path)
        dot == LastIndexOf(name, 46, Len(name))
    IN  IF dot > 1 /\ dot < Len(name) THEN SubSeq(name, 1, dot - 1) ELSE name

\* needle in hay
Contains(hay, needle) ==
    \E i \in 1..(Len(hay) - Len(needle) + 1) : SubSeq(hay, i, i + Len(needle) - 1) = needle

\* the key of the first of the items hits of the dict d, as << key >>, or <<>>
FirstItem(d, hits) == IF hits = {} THEN <<>> ELSE << d[Least(hits)].k >>

\* ConfigParser.find_class_for_model: <<>> for None
find_class_for_model(model_path, d) ==
    LET model_name == LowerStr(PathName(model_path))
        same_name == {i \in 1..Len(d) : LowerStr(PathName(d[i].v)) = model_name}
        similar == {i \in 1..Len(d) : \/ Contains(LowerStr(d[i].v), model_name)
                                       \/ Contains(model_name, LowerStr(PathStem(d[i].v)))}
    IN  IF same_name # {} THEN FirstItem(d, same_name) ELSE FirstItem(d, similar)

(***************************************************************************)
(* Configuration texts handed to the scan.                                 *)
(***************************************************************************)
\* 'Foo', 'Bar', 'In'; 'x\y.p3d', 'z.P3D'
Name_Foo == <<70, 111, 111>>
Name_Bar == <<66, 97, 114>>
Name_In == <<73, 110>>
Path_xy == <<120, 92, 121, 46, 112, 51, 100>>
Path_z == <<122, 46, 80, 51, 68>>

Spaces(n) == [i \in 1..n |-> 32]

\* a class block: class <cls> {  class <inner>{};  <pad spaces>  model = "<path>"; }
\* with no class token when cls is empty and no inner class when inner is
CfgBlock(cls, inner, pad, path) == [cls |-> cls, inner |-> inner, pad |-> pad, path |-> path]

BlockText(b) ==
    (IF b.cls = <<>> THEN <<>> ELSE Str_class \o <<32>> \o b.cls \o <<32>>)
    \o <<123>>
    \o (IF b.inner = <<>> THEN <<>> ELSE Str_class \o <<32>> \o b.inner \o <<123, 125, 59>>)
    \o Spaces(b.pad)
    \o Str_model \o <<32, 61, 32, 34>> \o b.path \o <<34, 59, 125>>

\* the pads that put the class token next to the assignment, at the far end
\* of the window, and one character beyond it
Pads == {1, Window - 11, Window - 10}

CfgBlocks ==
    {CfgBlock(cls, <<>>, pad, Path_xy) : cls \in {Name_Foo, Name_Bar}, pad \in Pads}
    \cup {CfgBlock(Name_Foo, <<>>, 1, Path_z), CfgBlock(<<>>, <<>>, 1, Path_xy),
          CfgBlock(Name_Foo, Name_In, 1, Path_xy)}

\* the model paths looked up: 'y.p3d', 'a/Y.P3D', 'z.p3d', 'q.p3d'
Queries == {<<121, 46, 112, 51, 100>>, <<97, 47, 89, 46, 80, 51, 68>>,
            <<122, 46, 112, 51, 100>>, <<113, 46, 112, 51, 100>>}

\* the text of the blocks bs
ConfigText(bs) == Concat([i \in 1..Len(bs) |-> BlockText(bs[i])])

\* the scans of the texts of at most n blocks
ConfigRuns(n) ==
    {[d |-> bs, out |-> parse_config_bin(ConfigText(bs))] : bs \in SeqsUpTo(CfgBlocks, n)}

\* 'a.p3d', 'b.p3d'; 'config.cpp', 'config.bin', 'Config.CPP'
Path_a == <<97, 46, 112, 51, 100>>
Path_b == <<98, 46, 112, 51, 100>>
Name_config_cpp == <<99, 111, 110, 102, 105, 103, 46, 99, 112, 112>>
Name_config_bin == <<99, 111, 110, 102, 105, 103, 46, 98, 105, 110>>
Name_Config_CPP == <<67, 111, 110, 102, 105, 103, 46, 67, 80, 80>>

\* class <cls> { model = "<p>"; ... } with one assignment per path of paths
AssignText(b) ==
    Str_class \o <<32>> \o b.cls \o <<32, 123>>
    \o Concat([i \in 1..Len(b.paths) |->
                  <<32>> \o Str_model \o <<32, 61, 32, 34>> \o b.paths[i] \o <<34, 59>>])
    \o <<32, 125, 10>>

\* class blocks with one or two model assignments
AssignBlocks ==
    [cls : {Name_Foo, Name_Bar}, paths : {<<Path_a>>, <<Path_b>>, <<Path_a, Path_b>>}]

\* the text of a configuration file with the blocks bs
AssignFileText(bs) == Concat([i \in 1..Len(bs) |-> AssignText(bs[i])])

\* configuration files with at most n blocks, and the lists of one such file
\* or of two files with one block each, as find_config_files finds them
ConfigFileLists(n) ==
    LET file(name, bs) == [path |-> name, blocks |-> bs]
        names == {Name_config_cpp, Name_config_bin}
        one == {<<file(nm, bs)>> : nm \in names, bs \in SeqsUpTo(AssignBlocks, n) \ {<<>>}}
        two == {<<file(n1, <<b1>>), file(n2, <<b2>>)>> :
                   n1 \in names, n2 \in names \cup {Name_Config_CPP},
                   b1 \in AssignBlocks, b2 \in AssignBlocks}
    IN  one \cup two

\* the files with their texts
WithTexts(fl) == [i \in 1..Len(fl) |-> [path |-> fl[i].path, text |-> AssignFileText(fl[i].blocks)]]

(***************************************************************************)
(* Matching class names to model files by file name.                       *)
(***************************************************************************)
\* s.replace('_', '').replace('-', '')
StripMarks(t) == SelectSeq(t, LAMBDA c : c \notin {95, 45})

\* class_lower[:4] and class_lower[-4:]
First4(t) == SubSeq(t, 1, IF Len(t) < 4 THEN Len(t) ELSE 4)
Last4(t) == SubSeq(t, IF Len(t) < 4 THEN 1 ELSE Len(t) - 3, Len(t))

\* Path(p3d_path).stem.lower()
StemLower(p3d_path) == LowerStr(PathStem(p3d_path))

\* class_lower == filename
ExactMatch(class_lower, p3d_path) == class_lower = StemLower(p3d_path)

\* clean_class in clean_filename or clean_filename in clean_class
ContainMatch(class_lower, p3d_path) ==
    LET clean_class == StripMarks(class_lower)
        clean_filename == StripMarks(StemLower(p3d_path))
    IN  Contains(clean_filename, clean_class) \/ Contains(clean_class, clean_filename)

\* any(pattern in filename for pattern in [class_lower[:4], class_lower[-4:]]
\*     if len(pattern) >= 3)
AffixMatch(class_lower, p3d_path) ==
    \E pattern \in {First4(class_lower), Last4(class_lower)} :
        Len(pattern) >= 3 /\ Contains(StemLower(p3d_path), pattern)

\* mutant: the last of the candidates that match
LastOf(files, hits) == << files[CHOOSE i \in hits : \A j \in hits : j <= i] >>

\* the first of the candidates that match: the loop returns at the first hit
FirstOf(files, hits) == << files[Least(hits)] >>

\* mutant: the exact pass is not made before the pass for similar names
MapWithoutExactPass(class_name, files) ==
    LET class_lower == LowerStr(class_name)
        similar == {i \in 1..Len(files) : \/ ContainMatch(class_lower, files[i])
                                           \/ AffixMatch(class_lower, files[i])}
    IN  IF similar # {} THEN FirstOf(files, similar) ELSE <<>>

\* map_class_to_p3d: <<>> for None
map_class_to_p3d(class_name, files) ==
    LET class_lower == LowerStr(class_name)
        exact == {i \in 1..Len(files) : ExactMatch(class_lower, files[i])}
        similar == {i \in 1..Len(files) : \/ ContainMatch(class_lower, files[i])
                                           \/ AffixMatch(class_lower, files[i])}
    IN  IF exact # {} THEN FirstOf(files, exact)
        ELSE IF similar # {} THEN FirstOf(files, similar)
        ELSE <<>>

RECURSIVE MappingLoop(_, _, _, _)
\* the loop of create_class_to_p3d_mapping over the class names from the i-th on
MappingLoop(names, files, i, d) ==
    IF i > Len(names) THEN d
    ELSE LET p3d_path == map_class_to_p3d(names[i], files)
         IN  MappingLoop(names, files, i + 1,
                         IF p3d_path # <<>> /\ p3d_path[1] # <<>>
                         THEN DictSet(d, names[i], p3d_path[1]) ELSE d)

\* create_class_to_p3d_mapping, given the files that find_p3d_files finds
create_class_to_p3d_mapping(names, files) == MappingLoop(names, files, 1, <<>>)

RECURSIVE MapExtractedDirs(_, _, _, _)
\* the loop of process_mod_folder over the extracted directories from the
\* i-th on; dirs[i] are the files find_p3d_files finds in the i-th
MapExtractedDirs(names, dirs, i, d) ==
    IF i > Len(dirs) THEN d
    ELSE MapExtractedDirs(names, dirs, i + 1,
                          DictUpdate(d, create_class_to_p3d_mapping(names, dirs[i]), 1))

\* the p3d_mapping that process_mod_folder builds for the class names of
\* the items: empty when no directory was extracted
process_mod_folder_mapping(names, dirs) ==
    IF dirs = <<>> THEN <<>> ELSE MapExtractedDirs(names, dirs, 1, <<>>)

\* the model files of a mod with a configuration: 'x/y.p3d', 'd/foo.p3d'
File_xy == <<120, 47, 121, 46, 112, 51, 100>>
File_foo == <<100, 47, 102, 111, 111, 46, 112, 51, 100>>

\* what find_p3d_files finds in an extracted directory
DirListings == {<<>>, <<File_xy>>, <<File_foo>>, <<File_xy, File_foo>>, <<File_foo, File_xy>>}

\* class names: 'M4A1', 'abcde', 'ab-cde'
Class_M4A1 == <<77, 52, 65, 49>>
Class_abcde == <<97, 98, 99, 100, 101>>
Class_ab_cde == <<97, 98, 45, 99, 100, 101>>
WantedClasses == {Class_M4A1, Class_abcde, Class_ab_cde}

\* model files: 'm4a1_reload.p3d', 'd/M4A1.p3d', 'abcd_x.p3d', 'xbcde.p3d',
\* 'abcde_long.p3d', 'd/ABCDE.p3d', 'zz.p3d'
File_m4a1_reload == <<109, 52, 97, 49, 95, 114, 101, 108, 111, 97, 100, 46, 112, 51, 100>>
File_M4A1 == <<100, 47, 77, 52, 65, 49, 46, 112, 51, 100>>
File_abcd_x == <<97, 98, 99, 100, 95, 120, 46, 112, 51, 100>>
File_xbcde == <<120, 98, 99, 100, 101, 46, 112, 51, 100>>
File_abcde_long == <<97, 98, 99, 100, 101, 95, 108, 111, 110, 103, 46, 112, 51, 100>>
File_ABCDE == <<100, 47, 65, 66, 67, 68, 69, 46, 112, 51, 100>>
File_zz == <<122, 122, 46, 112, 51, 100>>
ModelFiles == {File_m4a1_reload, File_M4A1, File_abcd_x, File_xbcde, File_abcde_long,
               File_ABCDE, File_zz}

\* the lists of at most n different files
CandidateLists(n) ==
    {fl \in SeqsUpTo(ModelFiles, n) : \A i, j \in 1..Len(fl) : i # j => fl[i] # fl[j]}

(***************************************************************************)
(* Extracting every archive of a mod directory.                            *)
(***************************************************************************)
\* file.lower().endswith('.pbo')
IsPbo(file) ==
    Len(file) >= 4 /\ LowerStr(SubSeq(file, Len(file) - 3, Len(file))) = <<46, 112, 98, 111>>

\* os.path.join(output_dir, file[:-4])
ExtractDirOf(output_dir, file) == PathJoin(output_dir, SubSeq(file, 1, Len(file) - 4))

\* the body of the loop for one archive: a new PBOParser parses it and, if
\* that succeeds, extracts it; the list with the extract directory appended
\* when both succeed.  f is the file's content, flt the I/O failure met while
\* extracting
ExtractOnePbo(dirs, output_dir, file, f, flt) ==
    LET extract_dir == ExtractDirOf(output_dir, file)
    IN  IF parse_pbo(f).ok
        THEN IF extract_to_directory(f, extract_dir, flt).ok
             THEN Append(dirs, extract_dir)
             ELSE dirs
        ELSE dirs

\* mutant: the loop ends at the first archive that fails
StopAtFailure(pos, n, done) == IF done THEN pos + 1 ELSE n + 1

\* the for loop goes on to the next file whatever happened to this one
NextFile(pos, n, done) == pos + 1

\* file names: 'a.pbo', 'B.PBO', 'c.txt'
Pbo_a == <<97, 46, 112, 98, 111>>
Pbo_B == <<66, 46, 80, 66, 79>>
Txt_c == <<99, 46, 116, 120, 116>>

\* an archive with the one entry 'a' of one byte
OneEntry == << [name |-> <<97>>, packing |-> 0, size |-> 1] >>

\* the files of a mod directory: kind "good" is a whole archive, "truncated"
\* one cut inside its header, "faulty" a whole archive whose extraction
\* meets a failing write, "other" a file that is no archive
BatchFile(name, kind) == [name |-> name, kind |-> kind]

\* the content of a file of that kind
BatchBytes(kind) ==
    IF kind = "truncated"
    THEN SubSeq(BuildArchive(<<>>, OneEntry), 1, HeaderLen(<<>>, OneEntry) - 3)
    ELSE BuildArchive(<<>>, OneEntry)

\* the I/O failure met while a file of that kind is extracted
BatchFault(kind) == IF kind = "faulty" THEN [at |-> 1, op |-> "write"] ELSE NoFault

BatchFiles ==
    {BatchFile(name, kind) : name \in {Pbo_a, Pbo_B}, kind \in {"good", "truncated", "faulty"}}
    \cup {BatchFile(Txt_c, "other")}

(***************************************************************************)
(* The mod processor (src/src/core/mod_processor.py) with its XML parser   *)
(* (src/src/parsers/xml_parser.py).  An XML file is its root tag and its   *)
(* <type name=...> elements, each with its name attribute (possibly empty) *)
(* and its nominal value.                                                  *)
(***************************************************************************)
\* XMLParser._is_types_xml: the root is <types> and there is a <type> with a
\* name attribute
is_types_xml(xf) == xf.root = "types" /\ xf.types # <<>>

\* XMLParser.find_types_xml_files, xmls being the .xml files of the folder
find_types_xml_files(xmls) == SelectSeq(xmls, is_types_xml)

RECURSIVE ParseTypes(_, _, _)
\* the loop of parse_xml_file over the <type> elements from the i-th on:
\* self.items[name_attr] = item, an element with an empty name is skipped
ParseTypes(types, i, items) ==
    IF i > Len(types) THEN items
    ELSE ParseTypes(types, i + 1,
                    IF types[i].name = <<>> THEN items
                    ELSE DictSet(items, types[i].name, types[i].nominal))

\* XMLParser.parse_xml_file: the items after it
parse_xml_file(xf, items) == ParseTypes(xf.types, 1, items)

RECURSIVE ParseXmlFiles(_, _, _)
\* the loop of process_mod_folder over types_xml_files from the i-th on
ParseXmlFiles(files, i, items) ==
    IF i > Len(files) THEN items
    ELSE ParseXmlFiles(files, i + 1, parse_xml_file(files[i], items))

\* mutant: the scratch directory of the previous run is left in place
KeepTree(dirs, d) == dirs

\* shutil.rmtree(d, ignore_errors=True) on the directories that exist
RemoveTree(dirs, d) == dirs \ {d}

\* mutant: the run goes on without a types.xml
NeverWithoutTypes(xml_count) == FALSE

\* if xml_count == 0
NoTypesFound(xml_count) == xml_count = 0

\* the path of the n-th directory that tempfile.mkdtemp makes: '/t1', '/t2', ...
ScratchPath(n) == <<47, 116, 48 + n>>

\* 'd/foo.p3d' stored in an archive
Model_foo == <<100, 47, 102, 111, 111, 46, 112, 51, 100>>

\* the archive 'a.pbo' of each kind, holding the model 'd/foo.p3d'
FolderPbos ==
    {[name |-> Pbo_a, kind |-> kind, models |-> <<Model_foo>>] :
        kind \in {"good", "truncated", "faulty"}}

\* extract_all_pbos_in_directory extracts the archive pbo of the folder
\* into its directory under output_dir
IsExtracted(pbo, output_dir) ==
    /\ IsPbo(pbo.name)
    /\ ExtractOnePbo(<<>>, output_dir, pbo.name, BatchBytes(pbo.kind), BatchFault(pbo.kind)) # <<>>

\* the archives of the folder that extract_all_pbos_in_directory could
\* extract, in walk order
ExtractedPbos(pbos, output_dir) == SelectSeq(pbos, LAMBDA pbo : IsExtracted(pbo, output_dir))

\* extract_all_pbos_in_directory(mod_folder_path, output_dir): the extract
\* directories of the archives done that could be extracted
extract_all_pbos_in_directory(done, output_dir) ==
    [i \in 1..Len(done) |-> ExtractDirOf(output_dir, done[i].name)]

\* what find_p3d_files finds in each extract directory: the model files of
\* the archive extracted there
ExtractedListings(done, output_dir) ==
    [i \in 1..Len(done) |->
        [j \in 1..Len(done[i].models) |->
            PathJoin(ExtractDirOf(output_dir, done[i].name), done[i].models[j])]]

\* item_data of an item: the fields the model keeps
ItemData(nominal, model_path) == [nominal |-> nominal, model_path |-> model_path]

\* processed_items: every item of the XML parser with an empty model_path
ProcessedItems(items) ==
    [i \in 1..Len(items) |-> [k |-> items[i].k, v |-> ItemData(items[i].v, <<>>)]]

\* processed_items[item_name]['model_path'] = p3d_path for the items mapped
WithModelPaths(processed_items, mp) ==
    [i \in 1..Len(processed_items) |->
        LET hits == {j \in 1..Len(mp) : mp[j].k = processed_items[i].k}
        IN  IF hits = {} THEN processed_items[i]
            ELSE [k |-> processed_items[i].k,
                  v |-> ItemData(processed_items[i].v.nominal, mp[CHOOSE j \in hits : TRUE].v)]]

\* the result dictionary of process_mod_folder
ModResult(success, items, error, pbo_files) ==
    [success |-> success, items |-> items, error |-> error, pbo_files |-> pbo_files]

\* the part of process_mod_folder after the types.xml files were parsed
\* into items: extracted are the directories extract_all_pbos_in_directory
\* returns and listings what find_p3d_files finds in each
MapItems(items, extracted, listings) ==
    LET processed_items == ProcessedItems(items)
        names == [i \in 1..Len(processed_items) |-> processed_items[i].k]
    IN  ModResult(TRUE,
                  WithModelPaths(processed_items, process_mod_folder_mapping(names, listings)),
                  "None", Len(extracted))

\* ModProcessor.process_mod_folder(mod_folder_path) on the processor md, the
\* folder holding the XML files folder.xmls and the archives folder.pbos;
\* mkdtemp_ok is false when tempfile.mkdtemp raises.  What it leaves and
\* returns; attempted tells whether extract_all_pbos_in_directory was called
process_mod_folder(md, folder, mkdtemp_ok) ==
    LET removed == IF md.temp_dir # <<>> THEN RemoveTree(md.scratch, md.temp_dir[1])
                   ELSE md.scratch
        made == md.mod_runs + 1
    IN  IF ~mkdtemp_ok
        THEN [temp_dir |-> md.temp_dir, scratch |-> removed, xml_items |-> md.xml_items,
              attempted |-> FALSE, extracted |-> <<>>,
              out |-> ModResult(FALSE, <<>>, "failed", 0)]
        ELSE CHOOSE r \in
                 {IF NoTypesFound(Len(types_xml_files))
                  THEN [temp_dir |-> <<made>>, scratch |-> removed \cup {made},
                        xml_items |-> md.xml_items,
                        attempted |-> FALSE, extracted |-> <<>>,
                        out |-> ModResult(FALSE, <<>>, "no types.xml", 0)]
                  ELSE CHOOSE q \in
                           {[temp_dir |-> <<made>>, scratch |-> removed \cup {made},
                             xml_items |-> items,
                             attempted |-> TRUE,
                             extracted |-> extract_all_pbos_in_directory(done, ScratchPath(made)),
                             out |-> MapItems(items,
                                        extract_all_pbos_in_directory(done, ScratchPath(made)),
                                        ExtractedListings(done, ScratchPath(made)))] :
                               items \in {ParseXmlFiles(types_xml_files, 1, md.xml_items)},
                               done \in {ExtractedPbos(folder.pbos, ScratchPath(made))}} :
                           TRUE :
                      types_xml_files \in {find_types_xml_files(folder.xmls)}} : TRUE

\* ModProcessor.cleanup()
cleanup(md) ==
    IF md.temp_dir # <<>>
    THEN [temp_dir |-> <<>>, scratch |-> RemoveTree(md.scratch, md.temp_dir[1])]
    ELSE [temp_dir |-> md.temp_dir, scratch |-> md.scratch]

(***************************************************************************)
(* Mod folders handed to the processor.                                    *)
(***************************************************************************)
TypeElem(name, nominal) == [name |-> name, nominal |-> nominal]

\* <types> with Foo; <types> with Foo (another nominal) and Bar; <types>
\* with a <type name="">; another root with Foo
XmlFiles ==
    {[root |-> "types", types |-> <<TypeElem(Name_Foo, 1)>>],
     [root |-> "types", types |-> <<TypeElem(Name_Foo, 2), TypeElem(Name_Bar, 1)>>],
     [root |-> "types", types |-> <<TypeElem(<<>>, 1)>>],
     [root |-> "other", types |-> <<TypeElem(Name_Foo, 1)>>]}

\* mod folders with at most n XML files and at most one archive
ModFolders(n) == [xmls : SeqsUpTo(XmlFiles, n), pbos : SeqsUpTo(FolderPbos, 1)]

\* the calls of process_mod_folder: on each folder, and with a failing
\* tempfile.mkdtemp on the folders of one XML file
ModCalls(n) ==
    {[folder |-> fd, mkdtemp_ok |-> TRUE] : fd \in ModFolders(n)}
    \cup {[folder |-> fd, mkdtemp_ok |-> FALSE] :
             fd \in [xmls : SeqsUpTo(XmlFiles, 1) \ {<<>>}, pbos : {<<>>}]}

(***************************************************************************)
(* The parser as a state machine.                                          *)
(***************************************************************************)
NoSource == [ext |-> <<>>, recs |-> <<>>, cut |-> 0]
\* PBOParser.__init__
Init ==
    /\ header = <<>>
    /\ entries = <<>>
    /\ result = "none"
    /\ source = NoSource
    /\ input_kind = "none"
    /\ fs = NoTree
    /\ fault = NoFault
    /\ raised = 0
    /\ call = "none"
    /\ returned = <<>>
    /\ invoked = {}
    /\ p3d_file = [d |-> P3DDesc(<<>>, FALSE, 0, 0, <<>>, <<>>, 0),
                   file |-> [openable |-> FALSE, bytes |-> <<>>]]
    /\ cfg_text = <<>>
    /\ mappings = <<>>
    /\ lookup = <<>>
    /\ found = <<>>
    /\ batch = <<>>
    /\ batch_pos = 0
    /\ attempted = <<>>
    /\ extracted_dirs = <<>>
    /\ map_call = "none"
    /\ class_names = <<>>
    /\ p3d_files = <<>>
    /\ mapped = <<>>
    /\ p3d_mapping = <<>>
    /\ run_pc = "idle"
    /\ run_stream = <<>>
    /\ run_pos = 0
    /\ run_first = TRUE
    /\ run_entries = <<>>
    /\ run_eof = FALSE
    /\ run_family = "none"
    /\ run_iter = 0
    /\ run_vertices = 0
    /\ run_vreads = 0
    /\ run_freads = 0
    /\ temp_dir = <<>>
    /\ scratch = {}
    /\ xml_items = <<>>
    /\ mod_runs = 0
    /\ mod_op = "none"
    /\ mod_call = <<>>

\* PBOParser.parse_pbo(pbo_path), the file at pbo_path being the archive d
ParsePbo(run) ==
    LET r == run.out
    IN  /\ result' = (IF r.ok THEN "True" ELSE "False")
        /\ input_kind' = run.kind
        /\ IF r.ok
           THEN /\ header' = r.header
                /\ entries' = r.entries
                /\ source' = run.d
           ELSE UNCHANGED <<header, entries, source>>
        /\ UNCHANGED <<fs, fault, raised>>
        /\ UNCHANGED <<p3d_vars, cfg_vars, map_vars, batch_vars, step_vars, mod_vars>>

\* PBOParser.parse_pbo(pbo_path) on a new PBOParser, the file at pbo_path
\* being a header of some layout
ParseLayout ==
    /\ result = "none"
    /\ \E run \in LayoutRuns(MaxEntries) : ParsePbo(run)

\* PBOParser.extract_to_directory(pbo_path, output_dir), the file at pbo_path
\* being the archive run.d: a new parser and a new output_dir for the
\* archive, as extract_all_pbos_in_directory makes them
ExtractToDirectory ==
    /\ result = "none" /\ fs = NoTree
    /\ \E run \in ExtractRuns(MaxFiles) :
        LET r == run.x.parsed
        IN  /\ input_kind' = run.kind
            /\ IF r.ok
               THEN /\ header' = r.header
                    /\ entries' = r.entries
                    /\ source' = run.d
               ELSE UNCHANGED <<header, entries, source>>
            /\ result' = (IF run.x.ok THEN "True" ELSE "False")
            /\ fs' = run.x.tree
            /\ fault' = run.flt
            /\ raised' = run.x.raised
            /\ UNCHANGED <<p3d_vars, cfg_vars, map_vars, batch_vars, step_vars, mod_vars>>

\* PBOParser.extract_to_directory(pbo_path, output_dir) on a new parser and
\* a new output_dir, the file at pbo_path being an archive with entry names
\* that are no text or with less payload than its header announces
ExtractDamaged ==
    /\ result = "none" /\ fs = NoTree
    /\ \E run \in DamagedRuns(MaxFiles) :
        LET r == run.x.parsed
        IN  /\ input_kind' = run.kind
            /\ IF r.ok
               THEN /\ header' = r.header
                    /\ entries' = r.entries
                    /\ source' = run.d
               ELSE UNCHANGED <<header, entries, source>>
            /\ result' = (IF run.x.ok THEN "True" ELSE "False")
            /\ fs' = run.x.tree
            /\ fault' = run.flt
            /\ raised' = run.x.raised
            /\ UNCHANGED <<p3d_vars, cfg_vars, map_vars, batch_vars, step_vars, mod_vars>>

\* P3DParser.get_basic_model_info(p3d_path), on a new P3DParser
GetBasicModelInfo ==
    /\ call = "none"
    /\ \E run \in P3DRuns(MaxGood) :
        LET got == get_basic_model_info(run.file)
        IN  /\ call' = "get_basic_model_info"
            /\ returned' = got.model
            /\ invoked' = got.invoked
            /\ p3d_file' = run
    /\ UNCHANGED <<pbo_vars, cfg_vars, map_vars, batch_vars, step_vars, mod_vars>>

\* P3DParser.extract_model_data(p3d_path), on a new P3DParser
ExtractModelData ==
    /\ call = "none"
    /\ \E run \in P3DRuns(MaxGood) :
        LET got == extract_model_data(run.file)
        IN  /\ call' = "extract_model_data"
            /\ returned' = got.data
            /\ invoked' = got.invoked
            /\ p3d_file' = run
    /\ UNCHANGED <<pbo_vars, cfg_vars, map_vars, batch_vars, step_vars, mod_vars>>

\* ConfigParser.parse_config_bin(config_bin_path), on a new ConfigParser
ParseConfigBin ==
    /\ cfg_text = <<>> /\ lookup = <<>> /\ map_call = "none"
    /\ \E run \in ConfigRuns(MaxBlocks) :
        /\ run.d # <<>>
        /\ cfg_text' = run.d
        /\ mappings' = run.out
    /\ UNCHANGED <<lookup, found>>
    /\ UNCHANGED <<pbo_vars, p3d_vars, map_vars, batch_vars, step_vars, mod_vars>>

\* ConfigParser.find_class_for_model(model_path, mappings) on the mappings
\* of the scan
FindClassForModel ==
    /\ cfg_text # <<>> /\ lookup = <<>>
    /\ \E q \in Queries :
        /\ lookup' = q
        /\ found' = find_class_for_model(q, mappings)
    /\ UNCHANGED <<cfg_text, mappings>>
    /\ UNCHANGED <<pbo_vars, p3d_vars, map_vars, batch_vars, step_vars, mod_vars>>

\* ConfigParser.extract_all_class_mappings(mod_directory), on a new
\* ConfigParser, find_config_files finding the files chosen here
ExtractAllClassMappings ==
    /\ cfg_text = <<>> /\ lookup = <<>> /\ map_call = "none"
    /\ \E fl \in ConfigFileLists(MaxBlocks) :
        /\ cfg_text' = fl
        /\ mappings' = extract_all_class_mappings(WithTexts(fl))
    /\ UNCHANGED <<lookup, found>>
    /\ UNCHANGED <<pbo_vars, p3d_vars, map_vars, batch_vars, step_vars, mod_vars>>

\* P3DParser.map_class_to_p3d(class_name, p3d_files)
MapClassToP3d ==
    /\ map_call = "none"
    /\ \E c \in WantedClasses, fl \in CandidateLists(MaxCands) :
        /\ map_call' = "map_class_to_p3d"
        /\ class_names' = <<c>>
        /\ p3d_files' = fl
        /\ mapped' = map_class_to_p3d(c, fl)
    /\ UNCHANGED p3d_mapping
    /\ UNCHANGED <<pbo_vars, p3d_vars, cfg_vars, batch_vars, step_vars, mod_vars>>

\* P3DParser.create_class_to_p3d_mapping(class_names, p3d_directory), where
\* find_p3d_files finds the files fl in the directory
CreateClassToP3dMapping ==
    /\ map_call = "none"
    /\ \E names \in SeqsUpTo(WantedClasses, 2), fl \in CandidateLists(MaxCands - 1) :
        /\ map_call' = "create_class_to_p3d_mapping"
        /\ class_names' = names
        /\ p3d_files' = fl
        /\ p3d_mapping' = create_class_to_p3d_mapping(names, fl)
    /\ UNCHANGED mapped
    /\ UNCHANGED <<pbo_vars, p3d_vars, cfg_vars, batch_vars, step_vars, mod_vars>>

\* the model mapping of ModProcessor.process_mod_folder for the items Foo and
\* Bar of a mod folder, whose configuration text (if any) has been scanned
ProcessModFolder ==
    /\ map_call = "none" /\ lookup = <<>>
    /\ \E dirs \in SeqsUpTo(DirListings, MaxDirs) :
        /\ map_call' = "process_mod_folder"
        /\ class_names' = <<Name_Foo, Name_Bar>>
        /\ p3d_files' = Concat(dirs)
        /\ p3d_mapping' = process_mod_folder_mapping(<<Name_Foo, Name_Bar>>, dirs)
    /\ UNCHANGED mapped
    /\ UNCHANGED <<pbo_vars, p3d_vars, cfg_vars, batch_vars, step_vars, mod_vars>>

\* extract_all_pbos_in_directory(mod_dir, output_dir) is called: os.walk
\* will yield the files chosen here
ExtractAllPbos ==
    /\ batch_pos = 0
    /\ \E files \in SeqsUpTo(BatchFiles, MaxBatch) :
        /\ batch' = files
        /\ batch_pos' = 1
    /\ UNCHANGED <<attempted, extracted_dirs>>
    /\ UNCHANGED <<pbo_vars, p3d_vars, cfg_vars, map_vars, step_vars, mod_vars>>

\* one iteration of its loop over the files
ExtractNextPbo ==
    /\ batch_pos >= 1 /\ batch_pos <= Len(batch)
    /\ IF IsPbo(batch[batch_pos].name)
       THEN \E dirs \in {ExtractOnePbo(extracted_dirs, OutputDir, batch[batch_pos].name,
                                       BatchBytes(batch[batch_pos].kind),
                                       BatchFault(batch[batch_pos].kind))} :
                /\ attempted' = Append(attempted, batch_pos)
                /\ extracted_dirs' = dirs
                /\ batch_pos' = NextFile(batch_pos, Len(batch), dirs # extracted_dirs)
       ELSE /\ batch_pos' = batch_pos + 1
            /\ UNCHANGED <<attempted, extracted_dirs>>
    /\ UNCHANGED batch
    /\ UNCHANGED <<pbo_vars, p3d_vars, cfg_vars, map_vars, step_vars, mod_vars>>

\* the ModProcessor as its methods see it
TheProcessor ==
    [temp_dir |-> temp_dir, scratch |-> scratch, xml_items |-> xml_items, mod_runs |-> mod_runs]

\* how the previous call of process_mod_folder ended
PreviousEnd ==
    IF mod_call = <<>> THEN "none"
    ELSE IF mod_call[1].out.success THEN "success" ELSE mod_call[1].out.error

\* ModProcessor.process_mod_folder(mod_folder_path)
ProcessFolder ==
    /\ mod_runs < MaxRuns
    /\ \E c \in ModCalls(MaxXmls) :
        \E r \in {process_mod_folder(TheProcessor, c.folder, c.mkdtemp_ok)} :
            /\ temp_dir' = r.temp_dir
            /\ scratch' = r.scratch
            /\ xml_items' = r.xml_items
            /\ mod_call' = << [folder |-> c.folder, mkdtemp_ok |-> c.mkdtemp_ok,
                               attempted |-> r.attempted, extracted |-> r.extracted,
                               out |-> r.out, previous |-> PreviousEnd] >>
    /\ mod_runs' = mod_runs + 1
    /\ mod_op' = "process_mod_folder"
    /\ UNCHANGED <<pbo_vars, p3d_vars, cfg_vars, map_vars, batch_vars, step_vars>>

\* ModProcessor.cleanup()
Cleanup ==
    /\ mod_op # "cleanup"
    /\ temp_dir' = cleanup(TheProcessor).temp_dir
    /\ scratch' = cleanup(TheProcessor).scratch
    /\ mod_op' = "cleanup"
    /\ UNCHANGED <<xml_items, mod_runs, mod_call>>
    /\ UNCHANGED <<pbo_vars, p3d_vars, cfg_vars, map_vars, batch_vars, step_vars>>

\* PBOParser.parse_pbo(pbo_path) is called: PBOHeader.parse_from_file starts
\* on the bytes of the file
StartParsePbo ==
    /\ run_pc = "idle"
    /\ \E d \in ParseInputs :
        run_stream' = FileBytes(d)
    /\ run_pc' = "record"
    /\ run_pos' = 0
    /\ run_first' = TRUE
    /\ run_entries' = <<>>
    /\ UNCHANGED <<run_eof, run_family, run_iter, run_vertices, run_vreads, run_freads>>
    /\ UNCHANGED <<pbo_vars, p3d_vars, cfg_vars, map_vars, batch_vars, mod_vars>>

\* one iteration of the while loop of PBOHeader.parse_from_file, up to the
\* call of PBOHeaderExtension.parse_from_file: PBOHeaderEntry.parse_from_file
\* reads a name and five integers, a short read raising struct.error
ReadRecord ==
    /\ run_pc = "record"
    /\ \E filename \in {read_asciiz(run_stream, run_pos)} :
       \E packing_method \in {read_ulong(run_stream, filename.pos)} :
       \E original_size \in {read_ulong(run_stream, packing_method.pos)} :
       \E reserved \in {read_ulong(run_stream, original_size.pos)} :
       \E timestamp \in {read_ulong(run_stream, reserved.pos)} :
       \E data_size \in {read_ulong(run_stream, timestamp.pos)} :
           /\ run_pos' = data_size.pos
           /\ IF ~(packing_method.ok /\ original_size.ok /\ reserved.ok
                     /\ timestamp.ok /\ data_size.ok)
              THEN run_pc' = "failed" /\ UNCHANGED <<run_first, run_entries>>
              ELSE IF filename.val # EmptyStr
                   THEN /\ run_entries' =
                               Append(run_entries,
                                      PBOHeaderEntry(filename.val, packing_method.val,
                                                     original_size.val, reserved.val,
                                                     timestamp.val, data_size.val))
                        /\ run_first' = FALSE
                        /\ run_pc' = "record"
              ELSE IF run_first
                   THEN run_pc' = "strings" /\ UNCHANGED <<run_first, run_entries>>
              ELSE run_pc' = "done" /\ UNCHANGED <<run_first, run_entries>>
    /\ UNCHANGED <<run_stream, run_eof, run_family, run_iter, run_vertices, run_vreads,
                   run_freads>>
    /\ UNCHANGED <<pbo_vars, p3d_vars, cfg_vars, map_vars, batch_vars, mod_vars>>

\* one read_asciiz of PBOHeaderExtension.parse_from_file: a string of the
\* list, or the empty string that ends the list and the iteration of the
\* while loop of PBOHeader.parse_from_file
ReadString ==
    /\ run_pc = "strings"
    /\ \E s \in {read_asciiz(run_stream, run_pos)} :
           /\ run_pos' = s.pos
           /\ run_eof' = (run_eof \/ ScanToNul(run_stream, run_pos) = Len(run_stream))
           /\ IF s.val # EmptyStr
              THEN run_pc' = "strings" /\ UNCHANGED run_first
              ELSE run_pc' = "record" /\ run_first' = FALSE
    /\ UNCHANGED <<run_stream, run_entries, run_family, run_iter, run_vertices,
                   run_vreads, run_freads>>
    /\ UNCHANGED <<pbo_vars, p3d_vars, cfg_vars, map_vars, batch_vars, mod_vars>>

\* parse_mlod_geometry or parse_odol_geometry is called on a model file of
\* its family, up to the first loop
StartSample ==
    /\ run_pc = "idle"
    /\ \E d \in SampledInputs(MaxGood) :
        LET f == P3DFile(d).bytes
            lod_count == unpack_I(f, 8)
        IN  /\ run_stream' = f
            /\ run_family' = (IF d.magic = MLOD THEN "MLOD" ELSE "ODOL")
            /\ run_pc' = (IF d.magic = ODOL THEN "vertices"
                          ELSE IF ~lod_count.ok THEN "sampled"
                          ELSE IF lod_count.val > 0 THEN "vertices" ELSE "faces")
    /\ run_iter' = 0
    /\ run_vertices' = 0
    /\ UNCHANGED <<run_pos, run_first, run_entries, run_eof, run_vreads, run_freads>>
    /\ UNCHANGED <<pbo_vars, p3d_vars, cfg_vars, map_vars, batch_vars, mod_vars>>

\* one iteration of the vertex loop, or its end
SampleVertex ==
    /\ run_pc = "vertices"
    /\ IF run_iter < VertexRangeOf(run_family)
       THEN /\ run_vreads' = run_vreads + 1
            /\ IF VertexAppended(run_stream,
                                 IF run_family = "MLOD" THEN MlodVertexOffset
                                 ELSE OdolVertexOffset, run_iter)
               THEN /\ run_vertices' = run_vertices + 1
                    /\ run_iter' = run_iter + 1
                    /\ run_pc' = "vertices"
               ELSE /\ run_iter' = 0
                    /\ run_pc' = "faces"
                    /\ UNCHANGED run_vertices
       ELSE /\ run_iter' = 0
            /\ run_pc' = "faces"
            /\ UNCHANGED <<run_vertices, run_vreads>>
    /\ UNCHANGED <<run_stream, run_pos, run_first, run_entries, run_eof, run_family,
                   run_freads>>
    /\ UNCHANGED <<pbo_vars, p3d_vars, cfg_vars, map_vars, batch_vars, mod_vars>>

\* one iteration of the face loop, or its end
SampleFace ==
    /\ run_pc = "faces"
    /\ IF run_iter < FaceCountOf(run_family, run_vertices)
       THEN /\ run_freads' = run_freads + 1
            /\ IF FaceAppended(run_stream,
                               IF run_family = "MLOD" THEN MlodFaceOffset
                               ELSE OdolFaceOffset, run_iter, run_vertices)
               THEN run_iter' = run_iter + 1 /\ run_pc' = "faces"
               ELSE run_pc' = "sampled" /\ UNCHANGED run_iter
       ELSE run_pc' = "sampled" /\ UNCHANGED <<run_iter, run_freads>>
    /\ UNCHANGED <<run_stream, run_pos, run_first, run_entries, run_eof, run_family,
                   run_vertices, run_vreads>>
    /\ UNCHANGED <<pbo_vars, p3d_vars, cfg_vars, map_vars, batch_vars, mod_vars>>

(***************************************************************************)
(* Claims about parse_pbo.                                                 *)
(***************************************************************************)
\* the entry table is the records of the archive r, in file order
TableIs(es, recs) ==
    /\ Len(es) = Len(recs)
    /\ \A i \in 1..Len(es) :
          /\ es[i].filename = [text |-> TRUE, b |-> recs[i].name]
          /\ es[i].packing_method = recs[i].packing
          /\ es[i].original_size = recs[i].size
          /\ es[i].data_size = recs[i].size

\* C1: for a well-formed archive (leading boundary, K extension strings, N
\* named records, terminating boundary) parse_pbo succeeds and entries holds
\* exactly the N named records in file order; no boundary record and no
\* extension string is in the entry table.
C1_EntriesAreNamedRecords ==
    input_kind = "complete" =>
        /\ result = "True"
        /\ TableIs(entries, source.recs)
        /\ \A i \in 1..Len(entries) :
              /\ ~is_boundary(entries[i])
              /\ \A k \in 1..Len(source.ext) : entries[i].filename.b # source.ext[k]

C1_Witness ==
    /\ input_kind = "complete" /\ result = "True"
    /\ Len(source.ext) >= 1 /\ Len(source.recs) = MaxEntries
    /\ Len(entries) = MaxEntries
    /\ source.recs[1].name # source.recs[2].name

\* C2: after a successful parse_pbo, entries[0].data_offset is origin (the
\* position right after the terminating boundary's five integers) and
\* entries[i].data_offset = entries[i-1].data_offset + entries[i-1].data_size.
C2_OffsetsRunFromOrigin ==
    source # NoSource =>
        /\ Len(entries) > 0 => entries[1].data_offset = HeaderLen(source.ext, source.recs)
        /\ \A i \in 2..Len(entries) :
              entries[i].data_offset = entries[i - 1].data_offset + entries[i - 1].data_size

C2_Witness ==
    /\ result = "True" /\ Len(entries) >= 2
    /\ entries[1].data_size > 0
    /\ entries[2].data_offset > entries[1].data_offset
    /\ entries[1].data_offset = HeaderLen(source.ext, source.recs)

\* C3: when the header is truncated parse_pbo reports failure and the parser
\* exposes no entry table afterwards, whatever was parsed before.
C3_NoTableAfterFailure ==
    input_kind = "truncated" => (result = "False" /\ entries = <<>>)

(***************************************************************************)
(* Claims about extract_to_directory.                                      *)
(***************************************************************************)
\* the components of the destination directory
OutputRoot == << <<111>> >>

\* a stored name that is a relative path of ordinary components
PlainName(name) ==
    /\ \A i \in 1..Len(name) : name[i] # 47
    /\ \A c \in {SplitOn(name, 92, 1, <<>>)[i] : i \in 1..Len(SplitOn(name, 92, 1, <<>>))} :
          c # <<>> /\ c # Dot /\ c # DotDot

\* where the entry named name belongs: under the destination, one
\* component per backslash-separated piece of the name
PlaceOf(name) == OutputRoot \o SplitOn(name, 92, 1, <<>>)

IsPrefix(a, b) == Len(a) <= Len(b) /\ SubSeq(b, 1, Len(a)) = a

\* records that describe a tree: plain names, no two alike, none a
\* directory of another
DescribesTree(recs) ==
    /\ \A i \in 1..Len(recs) : PlainName(recs[i].name)
    /\ \A i, j \in 1..Len(recs) : i # j => ~IsPrefix(PlaceOf(recs[i].name), PlaceOf(recs[j].name))

\* a well-formed archive describing a tree was extracted with no I/O failure
ExtractedTree ==
    /\ input_kind = "complete" /\ result # "none" /\ fault = NoFault
    /\ DescribesTree(source.recs)

RECURSIVE TotalBytes(_)
TotalBytes(files) ==
    IF files = {} THEN 0
    ELSE LET fl == CHOOSE x \in files : TRUE
         IN  Len(fl.data) + TotalBytes(files \ {fl})

\* the payload slice [data_offset, data_offset + data_size) of entry i
SliceOf(i) ==
    SubSeq(FileBytes(source), entries[i].data_offset + 1,
           entries[i].data_offset + entries[i].data_size)

\* C4 as stated: extracting a well-formed archive with N entries writes
\* exactly N files, one per entry at its normalized name, each holding the
\* entry's payload slice, and the extracted bytes total the sum of data_size.
C4_OneFilePerEntry ==
    ExtractedTree =>
        /\ result = "True"
        /\ Cardinality(fs.files) = Len(source.recs)
        /\ \A i \in 1..Len(source.recs) :
              [path |-> PlaceOf(source.recs[i].name), data |-> SliceOf(i)] \in fs.files
        /\ TotalBytes(fs.files) = SumSizes(source.recs)

\* C4 amended: exactly one file per entry with data_size > 0 (an entry with
\* data_size 0 gets no file), at its normalized name, holding the entry's
\* payload slice, which is the content the archive was built from; the
\* extracted bytes total the sum of data_size.
C4_OneFilePerSizedEntry ==
    ExtractedTree =>
        /\ result = "True"
        /\ fs.files = {[path |-> PlaceOf(source.recs[i].name), data |-> SliceOf(i)] :
                          i \in {j \in 1..Len(source.recs) : source.recs[j].size > 0}}
        /\ \A i \in 1..Len(source.recs) : SliceOf(i) = Content(i, source.recs[i].size)
        /\ Cardinality(fs.files) =
              Cardinality({j \in 1..Len(source.recs) : source.recs[j].size > 0})
        /\ TotalBytes(fs.files) = SumSizes(source.recs)

C4_Witness ==
    /\ ExtractedTree /\ result = "True"
    /\ Len(source.recs) = 2
    /\ source.recs[1].size = 0 /\ source.recs[2].size > 0
    /\ source.recs[2].name = <<98, 92, 97>>
    /\ fs.files = {[path |-> << <<111>>, <<98>>, <<97>> >>, data |-> Content(2, 2)]}

\* a path of the tree that lies in the destination directory
Inside(path) == IsPrefix(OutputRoot, path)

\* C5: whatever the stored names ('..' components, absolute paths),
\* extract_to_directory creates no file and no directory outside the
\* destination directory.
C5_NothingOutsideDestination ==
    /\ \A fl \in fs.files : Inside(fl.path)
    /\ \A dir \in fs.dirs : Inside(dir)

\* an entry that extraction wrote to a file
Written(i) == entries[i].filename.b # <<>> /\ entries[i].data_size > 0

\* C6: when an entry's packing_method is non-zero its raw bytes are written
\* and the result handed to the caller says that the entry was not decoded:
\* it is not the result of extracting unpacked entries (True).
C6_PackedEntriesFlagged ==
    (/\ input_kind = "complete" /\ fault = NoFault /\ raised = 0 /\ fs # NoTree
     /\ \E i \in 1..Len(entries) : Written(i) /\ entries[i].packing_method # 0)
    => /\ \A i \in 1..Len(entries) :
             (Written(i) /\ entries[i].packing_method # 0)
                 => \E fl \in fs.files : fl.data = SliceOf(i)
       /\ result # "True"

\* the file entry i is written to, in the tree as extraction left it
TargetOf(i) == OpenTarget(fs, PathJoin(OutputDir, ReplaceBackslash(entries[i].filename.b)))

\* C7: when an I/O operation fails while entry k is extracted,
\* extract_to_directory reports failure, the files written for the entries
\* before k stay in place (each holds what the last entry before k with that
\* name wrote, unless entry k itself opened the same file), and nothing of
\* the entries after k is written.
C7_FailureStopsWithoutRollback ==
    raised >= 1 =>
        /\ result = "False"
        /\ \A j \in 1..(raised - 1) :
              Written(j) =>
                  \E fl \in fs.files :
                      /\ fl.path = TargetOf(j).path
                      /\ \/ \E h \in j..(raised - 1) :
                               Written(h) /\ TargetOf(h).path = fl.path /\ fl.data = SliceOf(h)
                         \/ fl.data = <<>> /\ TargetOf(raised).path = fl.path
        /\ \A fl \in fs.files :
              \/ \E j \in 1..(raised - 1) : Written(j) /\ fl.data = SliceOf(j)
              \/ fl.data = <<>> /\ TargetOf(raised).ok /\ fl.path = TargetOf(raised).path

C7_Witness ==
    /\ raised = 2 /\ fault = [at |-> 2, op |-> "write"] /\ result = "False"
    /\ Len(entries) = MaxFiles
    /\ \A i \in 1..Len(entries) : Written(i)
    /\ \E fl \in fs.files : fl.data = SliceOf(1)
    /\ \E fl \in fs.files : fl.data = <<>>

(***************************************************************************)
(* Claims about the P3D model reader.                                      *)
(***************************************************************************)
TheFile == p3d_file.file.bytes
Family == ReadBytes(TheFile, 0, 4)
Called == call # "none"

\* C8: a file whose first 4 bytes are neither 'MLOD' nor 'ODOL' (shorter
\* files and files that cannot be opened included) makes
\* get_basic_model_info and extract_model_data return None, and no geometry
\* parser is invoked for it.
C8_NotAModelIsNeverSampled ==
    (Called /\ (~p3d_file.file.openable \/ Family \notin {MLOD, ODOL}))
        => (returned = <<>> /\ invoked = {})

\* extract_model_data was handed a file of another magic that carries a
\* whole vertex stream and a face, and returned None
C8_Witness ==
    /\ call = "extract_model_data"
    /\ p3d_file.file.openable
    /\ Family \in OtherMagics
    /\ Len(TheFile) > MlodFaceOffset
    /\ returned = <<>>

\* the family's offset and cap, the candidates of the stream
StreamOffset == IF Family = ODOL THEN 200 ELSE 100
StreamCap == IF Family = ODOL THEN 50 ELSE 100
CandidateCount ==
    IF Len(TheFile) < StreamOffset THEN 0 ELSE (Len(TheFile) - StreamOffset) \div 12
Candidate(i) ==
    LET p == StreamOffset + 12 * (i - 1)
    IN  <<Coord(unpack_f(TheFile, p)), Coord(unpack_f(TheFile, p + 4)),
          Coord(unpack_f(TheFile, p + 8))>>

\* the call returned a model whose vertex stream was sampled
Sampled ==
    /\ Called /\ returned # <<>>
    /\ Family = ODOL \/ unpack_I(TheFile, 8).val > 0

Vertices == returned[1].vertices

\* magnitudes: at most 1000, below 1000, above 1000 (a NaN is none of these)
AtMost1000(v) == \A k \in 1..3 : v[k].mag <= 1148846080
Under1000(v) == \A k \in 1..3 : v[k].mag < 1148846080
Over1000(x) == x.mag > 1148846080 /\ x.mag <= 2139095040

\* the longest prefix of the candidates that Accepts accepts, cut at the cap
MaximalPrefix(Accepts(_)) ==
    LET stops == {i \in 1..CandidateCount : ~Accepts(Candidate(i))}
        n == IF stops = {} THEN CandidateCount ELSE Least(stops) - 1
    IN  [i \in 1..Min(n, StreamCap) |-> Candidate(i)]

\* C9 as stated: the sampled vertices are the maximal prefix of candidates
\* whose coordinates all have magnitude at most 1000 (exactly 1000
\* accepted), truncated at the cap (100 for MLOD, 50 for ODOL).
C9_AcceptsUpToThousand == Sampled => Vertices = MaximalPrefix(AtMost1000)

\* C9 amended: the sampled vertices are the maximal prefix of candidates
\* whose coordinates all have magnitude strictly below 1000 (a coordinate
\* of exactly 1000, or a NaN, stops the sampling), truncated at the cap; an
\* MLOD file whose LOD count is 0 has no vertex sampled.
C9_AcceptsBelowThousand ==
    /\ Sampled => Vertices = MaximalPrefix(Under1000)
    /\ (Called /\ returned # <<>> /\ ~Sampled) => Vertices = <<>>

\* sampling stopped at a candidate with a coordinate of exactly 1000, after
\* at least one vertex and before the cap and the end of the file
C9_Witness ==
    /\ Sampled
    /\ Len(Vertices) >= 1 /\ Len(Vertices) < StreamCap
    /\ Len(Vertices) + 2 <= CandidateCount
    /\ AtMost1000(Candidate(Len(Vertices) + 1))
    /\ ~Under1000(Candidate(Len(Vertices) + 1))

\* C10 as stated: when the third float of the vertex stream has magnitude
\* above 1000, the vertices returned are those read before it, and they are
\* neither zero vertices nor all the vertices of the stream.
C10_ThirdFloatStopsMidway ==
    (Sampled /\ CandidateCount >= 1 /\ Over1000(Candidate(1)[3]))
        => /\ Vertices = MaximalPrefix(Under1000)
           /\ Len(Vertices) > 0
           /\ Len(Vertices) < CandidateCount

\* C10 amended: when the third candidate is the first one with a coordinate
\* of magnitude above 1000, exactly the two vertices before it are returned,
\* neither zero vertices nor all of the stream; when it is the third float
\* (the z of the first candidate) that is above 1000, zero vertices are
\* returned.
C10_ThirdCandidateStopsMidway ==
    /\ (/\ Sampled /\ CandidateCount >= 3
        /\ Under1000(Candidate(1)) /\ Under1000(Candidate(2))
        /\ \E k \in 1..3 : Over1000(Candidate(3)[k]))
            => /\ Vertices = <<Candidate(1), Candidate(2)>>
               /\ Len(Vertices) > 0
               /\ Len(Vertices) < CandidateCount
    /\ (Sampled /\ CandidateCount >= 1 /\ Over1000(Candidate(1)[3]))
            => Vertices = <<>>

\* the third candidate has a z above 1000 in magnitude and two vertices came back
C10_Witness ==
    /\ Sampled /\ CandidateCount >= 4
    /\ Under1000(Candidate(1)) /\ Under1000(Candidate(2))
    /\ Over1000(Candidate(3)[3])
    /\ Len(Vertices) = 2

\* the faces of the returned model, the family's face offset and limit, and
\* the index triples of the face stream
Faces == returned[1].faces
FaceStreamOffset == IF Family = ODOL THEN 400 ELSE 300
FaceLimit == IF Family = ODOL THEN 150 ELSE 200
FaceCandidateCount ==
    IF Len(TheFile) < FaceStreamOffset THEN 0
    ELSE (Len(TheFile) - FaceStreamOffset) \div 6
FaceCandidate(i) ==
    LET p == FaceStreamOffset + 6 * (i - 1)
    IN  <<unpack_H(TheFile, p).val, unpack_H(TheFile, p + 2).val,
          unpack_H(TheFile, p + 4).val>>
InRange(t) == \A k \in 1..3 : t[k] < Len(Vertices)
FacePrefix ==
    LET stops == {i \in 1..FaceCandidateCount : ~InRange(FaceCandidate(i))}
        n == IF stops = {} THEN FaceCandidateCount ELSE Least(stops) - 1
    IN  [i \in 1..Min(n, Min(Len(Vertices) \div 3, FaceLimit)) |-> FaceCandidate(i)]

MissesAtOnce == CandidateCount = 0 \/ ~Under1000(Candidate(1))

\* C12: for every file that opens with 'MLOD' or 'ODOL' and a whole 4-byte
\* version, get_basic_model_info returns a model whose valid flag equals
\* (vertex count > 0); when sampling misses at once the model has zero
\* vertices and valid = false.
C12_RecognizedFileYieldsModel ==
    (/\ call = "get_basic_model_info"
     /\ p3d_file.file.openable
     /\ Family \in {MLOD, ODOL}
     /\ Len(TheFile) >= 8)
        => /\ returned # <<>>
           /\ returned[1].is_valid = (Len(Vertices) > 0)
           /\ MissesAtOnce => (Vertices = <<>> /\ ~returned[1].is_valid)

(***************************************************************************)
(* Claims about the configuration-text scan.                               *)
(***************************************************************************)
ScannedText == ConfigText(cfg_text)
Assignments == ModelMatches(ScannedText)
Slashed(path) == [i \in 1..Len(path) |-> IF path[i] = 92 THEN 47 ELSE path[i]]
Items(d) == {<<d[i].k, d[i].v>> : i \in 1..Len(d)}

\* the class token nearest before assignment i among those that lie in the
\* reach characters before it, as << name >>, or <<>>
NearestClass(i, reach) ==
    LET start == Assignments[i].start
        from == IF start - reach > 1 THEN start - reach ELSE 1
        tokens == ClassMatches(SubSeq(ScannedText, from, start - 1))
    IN  IF tokens = <<>> THEN <<>> ELSE << tokens[Len(tokens)].group >>

\* the bindings of a scan that binds each assignment to the nearest class
\* token in reach: per class, the path of the last assignment bound to it
Bindings(reach) ==
    {<<NearestClass(i, reach)[1], Slashed(Assignments[i].group)>> :
        i \in {j \in 1..Len(Assignments) :
                /\ NearestClass(j, reach) # <<>>
                /\ \A l \in (j + 1)..Len(Assignments) :
                        NearestClass(l, reach) # NearestClass(j, reach)}}

SameFile(path) == LowerStr(PathName(path)) = LowerStr(PathName(lookup))
ClassesOfLookup == {it[1] : it \in {b \in Items(mappings) : SameFile(b[2])}}
LastScannedFor ==
    LET js == {j \in 1..Len(Assignments) :
                 /\ NearestClass(j, 1000) # <<>>
                 /\ <<NearestClass(j, 1000)[1], Slashed(Assignments[j].group)>>
                        \in Items(mappings)
                 /\ SameFile(Slashed(Assignments[j].group))}
    IN  NearestClass(CHOOSE j \in js : \A l \in js : l <= j, 1000)

\* C14: when two classes of the scanned text reference the same model, the
\* class found for that model is the one scanned last.
C14_LaterScannedClassWins ==
    (lookup # <<>> /\ Cardinality(ClassesOfLookup) >= 2) => found = LastScannedFor

(***************************************************************************)
(* Claims about matching class names to model files.                       *)
(***************************************************************************)
MapCalled == map_call = "map_class_to_p3d"
TheClass == LowerStr(class_names[1])
ExactCands == {i \in 1..Len(p3d_files) : ExactMatch(TheClass, p3d_files[i])}
ContainCands == {i \in 1..Len(p3d_files) : ContainMatch(TheClass, p3d_files[i])}
AffixCands == {i \in 1..Len(p3d_files) : AffixMatch(TheClass, p3d_files[i])}

\* C15: if some candidate has a stem equal to the class name ignoring case,
\* map_class_to_p3d returns the first such candidate, even when candidates
\* before it match by containment or affix.
C15_ExactStemFirst ==
    (MapCalled /\ ExactCands # {}) => mapped = << p3d_files[Least(ExactCands)] >>

\* the exact candidate was returned although a candidate before it matches
\* by containment or affix
C15_Witness ==
    /\ MapCalled /\ ExactCands # {}
    /\ \E j \in ContainCands \cup AffixCands : j < Least(ExactCands) /\ j \notin ExactCands
    /\ mapped = << p3d_files[Least(ExactCands)] >>

\* C16: when no candidate matches exactly and some candidate matches by
\* containment, map_class_to_p3d returns a candidate that matches by
\* containment, even when a candidate before it matches by affix only.
C16_ContainmentBeforeAffix ==
    (MapCalled /\ ExactCands = {} /\ ContainCands # {})
        => \E i \in ContainCands : mapped = << p3d_files[i] >>

\* the entries of the mapping returned for the class name c
EntriesFor(c) == {i \in 1..Len(p3d_mapping) : p3d_mapping[i].k = c}

\* C17: a class name with no exact-stem candidate but with a candidate whose
\* stem contains it or is contained in it (lower-cased, underscores and
\* hyphens stripped) resolves to such a candidate and not to unresolved;
\* "M4A1" with the single candidate "m4a1_reload.p3d" resolves to that file.
C17_ResolvesByContainment ==
    map_call = "create_class_to_p3d_mapping" =>
        \A n \in 1..Len(class_names) :
            LET c == class_names[n]
                cl == LowerStr(c)
                contain == {i \in 1..Len(p3d_files) : ContainMatch(cl, p3d_files[i])}
            IN  /\ (/\ \A i \in 1..Len(p3d_files) : ~ExactMatch(cl, p3d_files[i])
                    /\ contain # {})
                        => \E e \in EntriesFor(c), i \in contain :
                                p3d_mapping[e].v = p3d_files[i]
                /\ (c = Class_M4A1 /\ p3d_files = <<File_m4a1_reload>>)
                        => \E e \in EntriesFor(c) : p3d_mapping[e].v = File_m4a1_reload

\* the strongest strategy under which the file matches the class
StrategyOf(file) ==
    IF ExactMatch(TheClass, file) THEN "exact"
    ELSE IF ContainMatch(TheClass, file) THEN "containment"
    ELSE IF AffixMatch(TheClass, file) THEN "affix"
    ELSE "none"
MatchesUnder(strategy, file) ==
    \/ strategy = "exact" /\ ExactMatch(TheClass, file)
    \/ strategy = "containment" /\ ContainMatch(TheClass, file)
    \/ strategy = "affix" /\ AffixMatch(TheClass, file)

\* C18: the result of map_class_to_p3d is an element of the list or
\* unresolved (unresolved exactly when no candidate matches), and among the
\* candidates that match under the strategy of the result it is the one that
\* comes first in the list.
C18_FirstInListOrder ==
    MapCalled =>
        /\ mapped = <<>> <=> (\A i \in 1..Len(p3d_files) : StrategyOf(p3d_files[i]) = "none")
        /\ mapped # <<>> =>
            \E i \in 1..Len(p3d_files) :
                /\ mapped[1] = p3d_files[i]
                /\ StrategyOf(p3d_files[i]) # "none"
                /\ \A j \in 1..(i - 1) :
                        ~MatchesUnder(StrategyOf(p3d_files[i]), p3d_files[j])

\* two candidates match under the same strategy and the first was returned
C18_Witness ==
    /\ MapCalled /\ mapped # <<>>
    /\ \E i, j \in 1..Len(p3d_files) :
        /\ i < j
        /\ mapped[1] = p3d_files[i]
        /\ StrategyOf(p3d_files[j]) = StrategyOf(p3d_files[i])

\* C19: a wanted class name for which the configuration scan yields a
\* mapping (to a model file that is there) is resolved to the model of the
\* scan; the file-name matching decides only for the other class names.
C19_ConfigMappingDecides ==
    (map_call = "process_mod_folder" /\ cfg_text # <<>>) =>
        \A i \in 1..Len(mappings) :
            (/\ \E n \in 1..Len(class_names) : class_names[n] = mappings[i].k
             /\ \E f \in 1..Len(p3d_files) :
                    LowerStr(p3d_files[f]) = LowerStr(mappings[i].v))
                => \E e \in EntriesFor(mappings[i].k) :
                        LowerStr(p3d_mapping[e].v) = LowerStr(mappings[i].v)

(***************************************************************************)
(* Claims about extracting every archive of a mod directory.               *)
(***************************************************************************)
RECURSIVE DirsOfGood(_, _)
\* the extract directories of the good archives among the first n files
DirsOfGood(files, n) ==
    IF n = 0 THEN <<>>
    ELSE IF files[n].kind = "good"
         THEN Append(DirsOfGood(files, n - 1),
                     OutputDir \o <<47>> \o SubSeq(files[n].name, 1, Len(files[n].name) - 4))
    ELSE DirsOfGood(files, n - 1)

RECURSIVE ArchivesAmong(_, _)
\* the positions of the archives among the first n files
ArchivesAmong(files, n) ==
    IF n = 0 THEN <<>>
    ELSE IF files[n].kind # "other" THEN Append(ArchivesAmong(files, n - 1), n)
    ELSE ArchivesAmong(files, n - 1)

\* C20: extract_all_pbos_in_directory attempts every archive under the
\* directory, whatever happened to the archives before it, and the list it
\* returns holds an extract directory for exactly the archives that were
\* parsed and extracted successfully.
C20_BatchContinuesPastFailures ==
    /\ batch_pos >= 1 =>
        /\ batch_pos <= Len(batch) + 1
        /\ attempted = ArchivesAmong(batch, batch_pos - 1)
        /\ extracted_dirs = DirsOfGood(batch, batch_pos - 1)
    /\ batch_pos = Len(batch) + 1 =>
        /\ attempted = ArchivesAmong(batch, Len(batch))
        /\ extracted_dirs = DirsOfGood(batch, Len(batch))

\* the loop is over: an archive that failed to parse and one that failed to
\* extract came before a good one, whose directory alone is in the list
C20_Witness ==
    /\ batch_pos = Len(batch) + 1
    /\ Len(batch) = 3
    /\ batch[1].kind = "truncated" /\ batch[2].kind = "faulty" /\ batch[3].kind = "good"
    /\ attempted = <<1, 2, 3>>
    /\ Len(extracted_dirs) = 1

(***************************************************************************)
(* Claims about the merge of configuration scans.                          *)
(***************************************************************************)
\* the file is scanned by extract_all_class_mappings
IsScanned(file) == file.path \in {Name_config_cpp, Name_config_bin}

\* the model assignments of the scanned files in the order they stand, each
\* with the class whose block it stands in
RECURSIVE AssignmentsOf(_)
AssignmentsOf(fl) ==
    IF fl = <<>> THEN <<>>
    ELSE (IF IsScanned(Head(fl))
          THEN Concat([i \in 1..Len(Head(fl).blocks) |->
                          [j \in 1..Len(Head(fl).blocks[i].paths) |->
                              [cls |-> Head(fl).blocks[i].cls,
                               path |-> Head(fl).blocks[i].paths[j]]]])
          ELSE <<>>)
         \o AssignmentsOf(Tail(fl))

\* the last of the assignments bound to the class cls
LastAssigned(as, cls) ==
    as[CHOOSE i \in 1..Len(as) : as[i].cls = cls /\ \A j \in (i + 1)..Len(as) : as[j].cls # cls].path

\* the models the mapping d holds for the class cls
ModelsOf(d, cls) == {d[i].v : i \in {j \in 1..Len(d) : d[j].k = cls}}

\* C25: when several model assignments bind to the same class name within
\* one scan the mapping holds the path of the last-scanned assignment, for
\* the config.bin scanner and the config.cpp scanner alike; and when several
\* configuration files are merged by extract_all_class_mappings the file
\* scanned later overwrites the mapping of the same class name from a file
\* scanned earlier.
C25_LastAssignmentWins ==
    cfg_text # <<>> =>
        LET as == AssignmentsOf(cfg_text)
        IN  \A cls \in {as[i].cls : i \in 1..Len(as)} :
                ModelsOf(mappings, cls) = {LastAssigned(as, cls)}

(***************************************************************************)
(* Claims about the ModProcessor.                                          *)
(***************************************************************************)
\* the items defined by the valid types.xml files of a folder: what an
\* XMLParser without items holds after parsing them
ItemsDefinedBy(folder) == ParseXmlFiles(find_types_xml_files(folder.xmls), 1, <<>>)

\* the names and nominal values of the items of a result
ResultItems(items) == {<<items[i].k, items[i].v.nominal>> : i \in 1..Len(items)}

\* C24: nothing is carried over between processing runs: the items in the
\* result of a process_mod_folder call on folder F are exactly the items
\* defined by the types.xml files found in F, whichever folders were
\* processed before; an item parsed in an earlier run never appears in a
\* later run's result.
C24_NothingCarriedOver ==
    (mod_call # <<>> /\ mod_call[1].out.success) =>
        LET defined == ItemsDefinedBy(mod_call[1].folder)
        IN  ResultItems(mod_call[1].out.items)
                = {<<defined[i].k, defined[i].v>> : i \in 1..Len(defined)}

\* the folder of the last call holds a valid types.xml file
HasValidTypes == find_types_xml_files(mod_call[1].folder.xmls) # <<>>

\* C26: process_mod_folder reports success whenever at least one valid
\* types.xml file is found and parsed in the folder, even when no archive is
\* present or every archive fails to extract (the items then keep an empty
\* model_path); when no valid types.xml is found it returns success = false
\* with an error message and empty items, without attempting any archive
\* extraction.
C26_SuccessNeedsOnlyTypes ==
    (mod_call # <<>> /\ mod_call[1].mkdtemp_ok) =>
        LET c == mod_call[1]
        IN  /\ HasValidTypes =>
                /\ c.out.success
                /\ c.out.error = "None"
                /\ c.extracted = <<>> =>
                       \A i \in 1..Len(c.out.items) : c.out.items[i].v.model_path = <<>>
            /\ ~HasValidTypes =>
                /\ ~c.out.success
                /\ c.out.error # "None"
                /\ c.out.items = <<>>
                /\ ~c.attempted
                /\ c.out.pbo_files = 0

\* a folder with a valid types.xml whose only archive could not be
\* extracted was processed with success
C26_Witness ==
    /\ mod_call # <<>> /\ mod_call[1].mkdtemp_ok
    /\ HasValidTypes
    /\ mod_call[1].folder.pbos # <<>>
    /\ mod_call[1].attempted /\ mod_call[1].extracted = <<>>
    /\ mod_call[1].out.success
    /\ \E i \in 1..Len(mod_call[1].out.items) : mod_call[1].out.items[i].v.model_path = <<>>

VertexCapOf(family) == IF family = "ODOL" THEN OdolVertexCap ELSE MlodVertexCap
FaceCapOf(family) == IF family = "ODOL" THEN OdolFaceCap ELSE MlodFaceCap

\* the model that the geometry parser of the family returns for the stream
SampledModel ==
    IF run_family = "MLOD"
    THEN parse_mlod_geometry([openable |-> TRUE, bytes |-> run_stream])
    ELSE parse_odol_geometry([openable |-> TRUE, bytes |-> run_stream])

\* where a call stands is where the code says it ends: parse_pbo in success
\* after a terminating boundary or in failure at the end of the file, the
\* sampling within its caps
EndsAsTheCodeDoes ==
    /\ run_vreads <= VertexCapOf(run_family)
    /\ run_freads <= Min(run_vertices \div 3, FaceCapOf(run_family))
    /\ run_pc = "done" =>
           /\ parse_pbo(run_stream).ok
           /\ run_pos = parse_pbo(run_stream).origin
           /\ ~run_first
    /\ run_pc = "failed" =>
           /\ ~parse_pbo(run_stream).ok
           /\ run_pos = Len(run_stream)
    /\ run_pc = "sampled" =>
           IF SampledModel = <<>> THEN run_vreads = 0 /\ run_freads = 0
           ELSE /\ run_vertices = Len(SampledModel[1].vertices)
                /\ run_iter = Len(SampledModel[1].faces)

\* C28: every core call terminates on every finite input: parse_pbo on any
\* finite byte stream ends in success (a terminating boundary was read) or
\* in failure (end of file reached first), also when the end of the file
\* falls inside the extension string list; geometry sampling performs at
\* most the family cap of vertex reads and at most
\* min(vertex_count // 3, face cap) face reads.
C28_EveryCallTerminates ==
    /\ []EndsAsTheCodeDoes
    /\ (run_pc # "idle") ~> (run_pc \in {"done", "failed", "sampled"})

\* parse_pbo ended in failure on a file that ends inside a string of the
\* extension string list
C28_Witness ==
    /\ run_pc = "failed"
    /\ run_eof
    /\ run_stream[Len(run_stream)] # 0

\* the positions in the walk of the archives tried so far; the same file
\* name at two positions is a file of that name in two subdirectories
Tried == {attempted[i] : i \in 1..Len(attempted)}

\* C30: extract_all_pbos_in_directory extracts each discovered archive into
\* its own directory: two distinct archives (also ones with the same file
\* name in different subdirectories) never share an extract directory, and
\* the returned list contains no directory twice.
C30_ArchivesExtractedApart ==
    /\ \A i, j \in Tried :
          i # j => ExtractDirOf(OutputDir, batch[i].name) # ExtractDirOf(OutputDir, batch[j].name)
    /\ \A i, j \in 1..Len(extracted_dirs) : i # j => extracted_dirs[i] # extracted_dirs[j]

(***************************************************************************)
(* Claims about the layout of the header.                                  *)
(***************************************************************************)
\* the header decoded last
TheHeader == header[1]

\* the string list of the archive, as read_asciiz returns its strings
StringsOf(d) == [i \in 1..Len(d.ext) |-> Decoded(d.ext[i])]

\* origin, as the entry table shows it: the data_offset of the first entry
OriginIs(pos) == entries # <<>> => entries[1].data_offset = pos

\* C22: only the very first record of the header can introduce an extension
\* block: a boundary at any later position terminates header decoding after
\* its five integers are consumed, nothing after it is read as a record or
\* as an extension string, and origin is the position right after it, also
\* when named records precede it and further records follow it.
C22_LaterBoundaryTerminates ==
    /\ input_kind \in {"later", "later+rest"}
       => /\ result = "True"
          /\ TableIs(entries, source.pre)
          /\ TheHeader.header_extension = NoExtension
          /\ TheHeader.eoh_boundary.packing_method = 1449489011
          /\ OriginIs(Len(LayoutHead(source)))
    /\ input_kind \in {"first", "first+rest"}
       => /\ result = "True"
          /\ TableIs(entries, source.post)
          /\ TheHeader.header_extension = [present |-> TRUE, strings |-> StringsOf(source)]
          /\ TheHeader.eoh_boundary.packing_method = 1131442803
          /\ OriginIs(Len(LayoutHeader(source)))

C22_Witness ==
    /\ input_kind = "later+rest" /\ result = "True"
    /\ Len(source.pre) = 1 /\ source.hasExt /\ source.ext # <<>>
    /\ source.post # <<>> /\ source.rest # <<>>
    /\ Len(entries) = 1
    /\ entries[1].data_offset = Len(LayoutHead(source))

\* C23: for every header of the documented layout (zero or more records, a
\* boundary, an optional string list ended by an empty string, zero or more
\* records, a final boundary) the entry table holds every non-boundary
\* record, those before the first boundary as well as those after it, in
\* header order, and origin is the position after the final boundary.
C23_LayoutDecodedWhole ==
    input_kind \in {"later", "first", "bare"}
    => /\ result = "True"
       /\ TableIs(entries, source.pre \o source.post)
       /\ OriginIs(Len(LayoutHeader(source)))

(***************************************************************************)
(* Claims about archives with names that are no text and with a short      *)
(* payload.                                                                *)
(***************************************************************************)
\* the archive has a record whose name is no UTF-8
HasRawName == \E i \in 1..Len(source.recs) : source.recs[i].name \in RawNames

\* every record of the archive is in the entry table at its position, a name
\* that is no UTF-8 as raw bytes
RawNamesKept ==
    /\ Len(entries) = Len(source.recs)
    /\ \A i \in 1..Len(entries) :
          /\ entries[i].filename.b = source.recs[i].name
          /\ entries[i].filename.text = (source.recs[i].name \notin RawNames)

\* C21: a stored entry name that is not valid UTF-8 is non-fatal:
\* read_asciiz returns the raw bytes, parse_pbo succeeds with the entry kept
\* at its position in the entry table, and extract_to_directory on such an
\* archive is not aborted or reported as failed because of that name.
C21_RawNameIsNonFatal ==
    (input_kind = "complete" /\ fault = NoFault /\ HasRawName)
    => (RawNamesKept /\ raised = 0 /\ result = "True")

\* C27: extract_to_directory reports success only if every entry with a
\* non-empty name and data_size > 0 had exactly data_size bytes copied to
\* its file: no file shorter than data_size is left under a success result,
\* also when the payload of the archive is shorter than the header says.
C27_SuccessMeansWholeFiles ==
    (input_kind \in {"complete", "short"} /\ result = "True")
    => \A i \in 1..Len(entries) :
          Written(i) =>
              \E fl \in fs.files :
                  fl.path = TargetOf(i).path /\ Len(fl.data) = entries[i].data_size

Next == \E run \in ParseRuns : ParsePbo(run)

Spec == Init /\ [][Next]_vars

NextExtract == ExtractToDirectory

SpecExtract == Init /\ [][NextExtract]_vars

NextP3D == GetBasicModelInfo \/ ExtractModelData

SpecP3D == Init /\ [][NextP3D]_vars

NextConfig == ParseConfigBin \/ FindClassForModel

SpecConfig == Init /\ [][NextConfig]_vars

NextMap == MapClassToP3d \/ CreateClassToP3dMapping

SpecMap == Init /\ [][NextMap]_vars

NextResolve == ParseConfigBin \/ ProcessModFolder

SpecResolve == Init /\ [][NextResolve]_vars

NextBatch == ExtractAllPbos \/ ExtractNextPbo

SpecBatch == Init /\ [][NextBatch]_vars

NextDamaged == ExtractDamaged

SpecDamaged == Init /\ [][NextDamaged]_vars

NextLayout == ParseLayout

SpecLayout == Init /\ [][NextLayout]_vars

NextMerge == ExtractAllClassMappings

SpecMerge == Init /\ [][NextMerge]_vars

NextProcessor == ProcessFolder \/ Cleanup

SpecProcessor == Init /\ [][NextProcessor]_vars

\* the steps of a call that has started
RunSteps == ReadRecord \/ ReadString \/ SampleVertex \/ SampleFace

NextSteps == StartParsePbo \/ StartSample \/ RunSteps

\* a call, once started, runs on: the core has no suspension points
SpecSteps == Init /\ [][NextSteps]_vars /\ WF_vars(RunSteps)

====
